---- MODULE Spec2Model ----
(***************************************************************************)
(* A model of receipt-printer:                                             *)
(*   discord-bot/image_backend.py  (class ImageBackend)                    *)
(*   discord-bot/utils.py          (wrap_long_string, print_text)          *)
(*   detect-motion-then-capture.py (the cooldown of the camera)            *)
(*   api.py, discord-bot/main.py, discord-bot/bot.py (the image handlers)  *)
(*                                                                         *)
(* Strings are sequences of one-character strings, so that split, strip,   *)
(* ljust, join and the wrapping algorithms are computed character by       *)
(* character as Python computes them.  A font is a record naming the file  *)
(* it was loaded from and its pixel size; its metrics (getbbox) are a      *)
(* function of the pixel size and of the glyphs measured.                  *)
(***************************************************************************)
EXTENDS Integers, Sequences, FiniteSets, TLC

\* the rendering engine and the call being made on it
VARIABLES self, op, args, result, snap

\* the globals and threads of the motion-capture script
VARIABLES can_capture, cooldown_timer, timers, pc, pir, hist

\* the printer handle of the services (the global p of api.py, main.py and
\* bot.py)
VARIABLES printer

engine == <<self, op, args, result, snap>>

script == <<can_capture, cooldown_timer, timers, pc, pir, hist>>

vars == <<self, op, args, result, snap,
          can_capture, cooldown_timer, timers, pc, pir, hist, printer>>

\* the motion-capture script is not running
ScriptOff ==
    /\ can_capture = TRUE
    /\ cooldown_timer = 0
    /\ timers = <<>>
    /\ pc = "off"
    /\ pir = FALSE
    /\ hist = [off |-> TRUE]

\* no service is running
ServiceOff == printer = [off |-> TRUE]

(***************************************************************************)
(* Bounds of the model.                                                    *)
(***************************************************************************)
\* number of candidate paths of a font list that are tried (the lists of the
\* source have 8, 8 and 4 entries; the index of the winning candidate is
\* all that a font handle remembers)
MaxCand == 2
\* the configured base font sizes range over 1..MaxFontSize
MaxFontSize == 6

(***************************************************************************)
(* Small arithmetic helpers.                                               *)
(***************************************************************************)
Max(a, b) == IF a >= b THEN a ELSE b

Min(a, b) == IF a <= b THEN a ELSE b

(***************************************************************************)
(* Python strings, as sequences of one-character strings.                  *)
(***************************************************************************)
Whitespace == {" ", "\t", "\n"}

Rep(c, n) == [i \in 1..n |-> c]

Contains(s, c) == \E i \in 1..Len(s) : s[i] = c

\* s.startswith(p), s.endswith(p)
StartsWith(s, p) == Len(s) >= Len(p) /\ SubSeq(s, 1, Len(p)) = p

EndsWith(s, p) ==
    Len(s) >= Len(p) /\ SubSeq(s, Len(s) - Len(p) + 1, Len(s)) = p

\* s[n:]
From(s, n) == SubSeq(s, n + 1, Len(s))

\* s.strip()
Strip(s) ==
    LET ink == {i \in 1..Len(s) : s[i] \notin Whitespace}
    IN  IF ink = {} THEN <<>>
        ELSE SubSeq(s, CHOOSE i \in ink : \A j \in ink : i <= j,
                       CHOOSE i \in ink : \A j \in ink : i >= j)

\* s.ljust(w)
LJust(s, w) == IF Len(s) >= w THEN s ELSE s \o Rep(" ", w - Len(s))

\* index of the first c in s, 0 when there is none
FirstIdx(s, c) ==
    IF Contains(s, c)
    THEN CHOOSE i \in 1..Len(s) : s[i] = c /\ \A j \in 1..(i - 1) : s[j] # c
    ELSE 0

RECURSIVE Split(_, _)
\* s.split(c): one more field than there are separators
Split(s, c) ==
    LET k == FirstIdx(s, c)
    IN  IF k = 0 THEN <<s>>
        ELSE <<SubSeq(s, 1, k - 1)>> \o Split(From(s, k), c)

RECURSIVE Join(_, _)
\* sep.join(parts)
Join(parts, sep) ==
    IF parts = <<>> THEN <<>>
    ELSE IF Len(parts) = 1 THEN parts[1]
    ELSE parts[1] \o sep \o Join(Tail(parts), sep)

\* list[1:-1]
DropEnds(l) == SubSeq(l, 2, Len(l) - 1)

\* [f.strip() for f in l]
StripAll(l) == [i \in 1..Len(l) |-> Strip(l[i])]

RECURSIVE SumSeq(_)
SumSeq(q) == IF q = <<>> THEN 0 ELSE Head(q) + SumSeq(Tail(q))

SetMax(S) == IF S = {} THEN 0 ELSE CHOOSE x \in S : \A y \in S : x >= y

SetMin(S) == IF S = {} THEN 0 ELSE CHOOSE x \in S : \A y \in S : x <= y

(***************************************************************************)
(* Fonts.  ImageFont.truetype(path, size) either raises OSError or gives a *)
(* handle; two handles are the same asset iff they are the same record.    *)
(***************************************************************************)
None == [src |-> "None", idx |-> 0, size |-> 0]

truetype(list, k, size) == [src |-> list, idx |-> k, size |-> size]

\* pixel size of the font ImageFont.load_default() returns
DefaultFontSize == 10

load_default == [src |-> "load_default", idx |-> 0, size |-> DefaultFontSize]

\* int(font_size * 1.8), int(font_size * 1.5), int(font_size * 1.2): the
\* double product truncated; it equals the exact quotient for 1..3000
H1Size(fs) == (fs * 18) \div 10

H2Size(fs) == (fs * 15) \div 10

\* H3 loaded at the base size (the 1.2 multiplier forgotten)
H3Size_base(fs) == fs

H3Size(fs) == (fs * 12) \div 10

\* One "for font_path in paths: try ... break / except: continue" loop:
\* k is the index of the first candidate that loads, 0 when all raise.
LoadFirst(list, k, size, before) ==
    IF k = 0 THEN before ELSE truetype(list, k, size)

\* The outcomes of all font-file loads of one construction.
LoadOutcomes ==
    [font : 0..MaxCand, arial : BOOLEAN, bold : 0..MaxCand, h1 : 0..MaxCand,
     h2 : 0..MaxCand, h3 : 0..MaxCand, emoji : 0..MaxCand]

\* the padding __init__ sets
Padding == 20

\* the object before __init__ has run
Unconstructed ==
    [max_width |-> 0, font_size |-> 0, line_spacing |-> 0, padding |-> 0,
     font |-> None, bold_font |-> None, h1_font |-> None, h2_font |-> None,
     h3_font |-> None, emoji_font |-> None]

\* __init__ without the "if self.emoji_font is None" fallback
Construct_no_emoji_fallback(mw, fs, ls, ld) ==
    LET regular == LoadFirst("font_paths", ld.font, fs, None)
        bold == LoadFirst("bold_font_paths", ld.bold, fs, None)
        h1 == LoadFirst("font_paths", ld.h1, H1Size(fs), None)
        h2 == LoadFirst("font_paths", ld.h2, H2Size(fs), None)
        h3 == LoadFirst("font_paths", ld.h3, H3Size(fs), None)
        font == IF ld.font # 0 THEN regular
                ELSE IF ld.arial THEN truetype("arial.ttf", 1, fs)
                ELSE load_default
    IN  [max_width |-> mw, font_size |-> fs, line_spacing |-> ls,
         padding |-> Padding,
         font |-> font,
         bold_font |-> IF bold = None THEN font ELSE bold,
         h1_font |-> IF h1 = None THEN font ELSE h1,
         h2_font |-> IF h2 = None THEN font ELSE h2,
         h3_font |-> IF h3 = None THEN font ELSE h3,
         emoji_font |-> LoadFirst("emoji_font_paths", ld.emoji, fs, None)]

\* ImageBackend.__init__(max_width, font_size, line_spacing) under the load
\* outcomes ld
Construct(mw, fs, ls, ld) ==
    LET regular == LoadFirst("font_paths", ld.font, fs, None)
        bold == LoadFirst("bold_font_paths", ld.bold, fs, None)
        h1 == LoadFirst("font_paths", ld.h1, H1Size(fs), None)
        h2 == LoadFirst("font_paths", ld.h2, H2Size(fs), None)
        h3 == LoadFirst("font_paths", ld.h3, H3Size(fs), None)
        font_loaded == ld.font # 0
        font == IF font_loaded THEN regular
                ELSE IF ld.arial THEN truetype("arial.ttf", 1, fs)
                ELSE load_default
        emoji == LoadFirst("emoji_font_paths", ld.emoji, fs, None)
    IN  [max_width |-> mw, font_size |-> fs, line_spacing |-> ls,
         padding |-> Padding,
         font |-> font,
         bold_font |-> IF bold = None THEN font ELSE bold,
         h1_font |-> IF h1 = None THEN font ELSE h1,
         h2_font |-> IF h2 = None THEN font ELSE h2,
         h3_font |-> IF h3 = None THEN font ELSE h3,
         emoji_font |-> IF emoji = None THEN font ELSE emoji]

(***************************************************************************)
(* Markdown parsing.  A line index i of the model is the index i - 1 of    *)
(* the source (sequences start at 1).  A styled line is the dict           *)
(* {'text': ..., 'font': ...} of the source.                               *)
(***************************************************************************)
Styled(text, font) == [text |-> text, font |-> font]

\* the one-character string U+2022, the bullet glyph of list items
Bullet == "bullet"

Digits == {"0", "1", "2", "3", "4", "5", "6", "7", "8", "9"}

\* re.match(r'^\d+\. ', line)
IsNumbered(line) ==
    \E n \in 1..Len(line) :
        /\ \A i \in 1..n : line[i] \in Digits
        /\ Len(line) >= n + 2
        /\ line[n + 1] = "."
        /\ line[n + 2] = " "

\* index >= from of the first run of m asterisks in s, 0 when there is none
FindStars(s, from, m) ==
    LET hits == {i \in from..(Len(s) - m + 1) :
                    \A k \in 0..(m - 1) : s[i + k] = "*"}
    IN  SetMin(hits)

\* a substitution that deletes every asterisk
SubStars_all(s, m) == SelectSeq(s, LAMBDA c : c # "*")

RECURSIVE SubStars(_, _)
\* re.sub(r'\*\*(.*?)\*\*', r'\1', s) for m = 2 and
\* re.sub(r'\*(.*?)\*', r'\1', s) for m = 1: leftmost, non-greedy,
\* non-overlapping pairs of markers are removed, what is between is kept
SubStars(s, m) ==
    LET i == FindStars(s, 1, m)
        j == IF i = 0 THEN 0 ELSE FindStars(s, i + m, m)
    IN  IF j = 0 THEN s
        ELSE SubSeq(s, 1, i - 1) \o SubSeq(s, i + m, j - 1)
                 \o SubStars(From(s, j + m - 1), m)

\* a scan that ends a table block at its first blank line
TableEnd_stops_at_blank(lines, i) ==
    LET stops == {k \in i..Len(lines) : ~Contains(lines[k], "|")}
    IN  IF stops = {} THEN Len(lines) + 1 ELSE SetMin(stops)

RECURSIVE TableEnd(_, _)
\* the scan loop of _parse_table: the first index from i on whose line
\* neither contains '|' nor is blank (Len(lines) + 1 at the end)
TableEnd(lines, i) ==
    IF i <= Len(lines) /\ (Contains(lines[i], "|") \/ Strip(lines[i]) = <<>>)
    THEN TableEnd(lines, i + 1)
    ELSE i

\* cells of one table row: split on '|', first and last field dropped
Cells(row_line) == StripAll(DropEnds(Split(row_line, "|")))

\* the column cap of _parse_table
MaxColWidth == 15

\* row[col_idx] if col_idx < len(row) else ''
CellOr(row, c) == IF c <= Len(row) THEN row[c] ELSE <<>>

\* the non-blank lines the scan loop of _parse_table collects
table_lines(lines, start_idx) ==
    SelectSeq(SubSeq(lines, start_idx, TableEnd(lines, start_idx) - 1),
              LAMBDA l : Strip(l) # <<>>)

\* header_cells: the cells of the first collected line
header_cells(tl) == Cells(tl[1])

\* data_rows: the cells of the collected lines after the separator line,
\* rows without cells left out
data_rows(tl) ==
    SelectSeq([k \in 1..(Len(tl) - 2) |-> Cells(tl[k + 2])],
              LAMBDA c : c # <<>>)

\* col_widths, one per header cell
col_widths(hc, dr) ==
    LET all_rows == <<hc>> \o dr
    IN  [c \in 1..Len(hc) |->
            Min(SetMax({Len(CellOr(all_rows[r], c)) : r \in 1..Len(all_rows)}) + 2,
                MaxColWidth)]

\* header_line: '|'.join(cell.ljust(width) for cell, width in zip(...))
header_line(hc, cw) ==
    Join([c \in 1..Len(hc) |-> LJust(hc[c], cw[c])], <<"|">>)

\* row_text of one data row
row_text(row, cw) ==
    Join([c \in 1..Len(cw) |-> LJust(CellOr(row, c), cw[c])], <<"|">>)

\* formatted_table for a header line hl: the header, the dashes, the rows
formatted_table(me, hl, dr, cw) ==
    <<Styled(hl, me.bold_font), Styled(Rep("-", Len(hl)), me.font)>>
        \o [r \in 1..Len(dr) |-> Styled(row_text(dr[r], cw), me.font)]

\* lines 236-268 of _parse_table for the cells hc of the header and dr of
\* the data rows
FormatCells(me, hc, dr, cw) == formatted_table(me, header_line(hc, cw), dr, cw)

FormatTable(me, hc, dr) == FormatCells(me, hc, dr, col_widths(hc, dr))

\* a variant of _parse_table whose abort hands the line back as a Plain line
parse_table_keeps_line(me, lines, start_idx) ==
    LET tl == table_lines(lines, start_idx)
    IN  IF Len(tl) < 2
        THEN [table |-> <<Styled(Strip(lines[start_idx]), me.font)>>,
              next |-> start_idx + 1]
        ELSE [table |-> FormatTable(me, header_cells(tl), data_rows(tl)),
              next |-> TableEnd(lines, start_idx)]

\* ImageBackend._parse_table(lines, start_idx): the formatted table and the
\* index at which parsing resumes
parse_table(me, lines, start_idx) ==
    LET tl == table_lines(lines, start_idx)
    IN  IF Len(tl) < 2
        THEN [table |-> <<>>, next |-> start_idx + 1]
        ELSE [table |-> FormatTable(me, header_cells(tl), data_rows(tl)),
              next |-> TableEnd(lines, start_idx)]

\* the if / elif chain of _parse_markdown_to_formatted_lines for one
\* stripped line that opens no table
parse_line(me, line) ==
    IF StartsWith(line, <<"#", " ">>) THEN Styled(From(line, 2), me.h1_font)
    ELSE IF StartsWith(line, <<"#", "#", " ">>)
        THEN Styled(From(line, 3), me.h2_font)
    ELSE IF StartsWith(line, <<"#", "#", "#", " ">>)
        THEN Styled(From(line, 4), me.h3_font)
    ELSE IF StartsWith(line, <<"*", "*">>) /\ EndsWith(line, <<"*", "*">>)
        THEN Styled(SubSeq(line, 3, Len(line) - 2), me.bold_font)
    ELSE IF StartsWith(line, <<"-", " ">>) \/ StartsWith(line, <<"*", " ">>)
        THEN Styled(<<Bullet, " ">> \o From(line, 2), me.font)
    ELSE IF IsNumbered(line) THEN Styled(line, me.font)
    ELSE IF Contains(line, "*")
        THEN Styled(SubStars(SubStars(line, 2), 1), me.font)
    ELSE Styled(line, me.font)

\* a table test without the look at the following line
OpensTable_no_lookahead(lines, i) == Contains(Strip(lines[i]), "|")

\* the table test of _parse_markdown_to_formatted_lines at index i
OpensTable(lines, i) ==
    /\ Contains(Strip(lines[i]), "|")
    /\ i + 1 <= Len(lines)
    /\ Contains(lines[i + 1], "|")

RECURSIVE parse_from(_, _, _)
\* the while loop of _parse_markdown_to_formatted_lines from index i on
parse_from(me, lines, i) ==
    IF i > Len(lines) THEN <<>>
    ELSE IF OpensTable(lines, i)
        THEN LET t == parse_table(me, lines, i)
             IN  t.table \o <<Styled(<<>>, me.font)>>
                     \o parse_from(me, lines, t.next)
    ELSE <<parse_line(me, Strip(lines[i]))>> \o parse_from(me, lines, i + 1)

\* ImageBackend._parse_markdown_to_formatted_lines(markdown_text)
parse_markdown_to_formatted_lines(me, markdown_text) ==
    parse_from(me, Split(markdown_text, "\n"), 1)

(***************************************************************************)
(* Font metrics: font.getbbox(text) of a FreeType font.  A glyph has an    *)
(* advance and an ink box (top and bottom measured down from the ascender  *)
(* line), all proportional to the pixel size and given here in hundredths  *)
(* of it; the box of a text spans the advances horizontally and the        *)
(* highest and lowest ink vertically.  Capitals, x-height letters, letters *)
(* with ascenders or descenders and punctuation differ in their ink box.   *)
(***************************************************************************)
Adv(c) ==
    CASE c \in {"W"} -> 99
      [] c \in {"A"} -> 68
      [] c \in {" "} -> 32
      [] c \in {"|", "-", "."} -> 34
      [] c \in {"#"} -> 84
      [] c \in {"*", "?"} -> 50
      [] OTHER -> 61

InkTop(c) ==
    CASE c \in {"W", "A", "#", "?"} \cup Digits -> 20
      [] c \in {"b", "d", "|", "*"} -> 17
      [] c \in {"-"} -> 58
      [] c \in {"."} -> 81
      [] c = Bullet -> 45
      [] OTHER -> 38

InkBottom(c) ==
    CASE c \in {"g", "|"} -> 115
      [] c \in {"-"} -> 66
      [] c \in {"*"} -> 52
      [] c = Bullet -> 70
      [] OTHER -> 93

Px(font, hundredths) == (hundredths * font.size) \div 100

\* font.getbbox(text) as (left, top, right, bottom)
getbbox(font, text) ==
    LET ink == {i \in 1..Len(text) : text[i] \notin Whitespace}
    IN  [l |-> 0,
         t |-> IF ink = {} THEN 0
               ELSE SetMin({Px(font, InkTop(text[i])) : i \in ink}),
         r |-> SumSeq([i \in 1..Len(text) |-> Px(font, Adv(text[i]))]),
         b |-> IF ink = {} THEN 0
               ELSE SetMax({Px(font, InkBottom(text[i])) : i \in ink})]

\* bbox[2] - bbox[0] and bbox[3] - bbox[1]
WidthOf(bbox) == bbox.r - bbox.l

HeightOf(bbox) == bbox.b - bbox.t

BoxWidth(font, text) == WidthOf(getbbox(font, text))

BoxHeight(font, text) == HeightOf(getbbox(font, text))

\* the height of the reference character 'A'
RefHeight(font) == BoxHeight(font, <<"A">>)

(***************************************************************************)
(* textwrap.fill(text, width, break_long_words=False,                      *)
(* break_on_hyphens=False): the text is cut into chunks, maximal runs of   *)
(* whitespace and of other characters, and the chunks are packed greedily  *)
(* into lines of at most width characters; whitespace at the start of a    *)
(* line (except the first) and at its end is dropped; a chunk longer than  *)
(* width gets a line of its own and is not broken.                         *)
(***************************************************************************)
RECURSIVE Chunks(_)
Chunks(s) ==
    IF s = <<>> THEN <<>>
    ELSE LET sp == s[1] \in Whitespace
             other == {i \in 1..Len(s) : (s[i] \in Whitespace) # sp}
             n == IF other = {} THEN Len(s) ELSE SetMin(other) - 1
         IN  <<SubSeq(s, 1, n)>> \o Chunks(From(s, n))

IsBlankChunk(c) == Strip(c) = <<>>

\* the number of leading chunks that fit into width characters together
FitCount(chunks, width) ==
    SetMax({k \in 0..Len(chunks) :
               SumSeq([i \in 1..k |-> Len(chunks[i])]) <= width})

RECURSIVE WrapChunks(_, _, _)
\* TextWrapper._wrap_chunks
WrapChunks(chunks, width, lines) ==
    LET c1 == IF chunks # <<>> /\ IsBlankChunk(chunks[1]) /\ lines # <<>>
              THEN Tail(chunks) ELSE chunks
        n == FitCount(c1, width)
        \* _handle_long_word with break_long_words=False
        m == IF n = 0 /\ c1 # <<>> /\ Len(c1[1]) > width THEN 1 ELSE n
        cur == SubSeq(c1, 1, m)
        kept == IF cur # <<>> /\ IsBlankChunk(cur[Len(cur)])
                THEN SubSeq(cur, 1, Len(cur) - 1) ELSE cur
    IN  IF chunks = <<>> THEN lines
        ELSE WrapChunks(From(c1, m), width,
                        IF kept # <<>> THEN Append(lines, Join(kept, <<>>))
                        ELSE lines)

\* every whitespace character becomes a space (replace_whitespace)
Munge(s) == [i \in 1..Len(s) |-> IF s[i] \in Whitespace THEN " " ELSE s[i]]

fill(text, width) == Join(WrapChunks(Chunks(Munge(text)), width, <<>>), <<"\n">>)

\* the character budget text_to_image wraps to
WrapColumns == 35

(***************************************************************************)
(* ImageBackend.text_to_image.  An image is its size and what was drawn    *)
(* into it; lines and y_offset record the wrapped lines with their         *)
(* measures and the value of y_offset when the drawing loop ends.          *)
(***************************************************************************)
\* the sub-lines of one non-blank rendered line, each with the width and
\* height the sizing pass measures for it
Measured(font, wrapped) ==
    [k \in 1..Len(wrapped) |->
        [text |-> wrapped[k], font |-> font,
         line_width |-> BoxWidth(font, wrapped[k]),
         line_height |-> BoxHeight(font, wrapped[k])]]

\* the wrapped lines of one rendered line: a blank line stays one empty
\* line, measured by the reference character
WrapLine(li) ==
    IF Strip(li.text) = <<>>
    THEN <<[text |-> <<>>, font |-> li.font, line_width |-> 0,
            line_height |-> RefHeight(li.font)]>>
    ELSE Measured(li.font, Split(fill(li.text, WrapColumns), "\n"))

\* the lines of a text that is not markdown, all in the Plain font
PlainLines(me, ls) == [i \in 1..Len(ls) |-> Styled(ls[i], me.font)]

rendered_lines(me, text, is_markdown) ==
    IF is_markdown THEN parse_markdown_to_formatted_lines(me, text)
    ELSE PlainLines(me, Split(text, "\n"))

\* the sizing loop over the rendered lines (lines 330-346)
WrappedLines(rendered) ==
    Join([i \in 1..Len(rendered) |-> WrapLine(rendered[i])], <<>>)

\* y_offset before the k-th wrapped line is drawn (k = Len + 1: at the end)
YOffset(me, wrapped, k) ==
    me.padding + SumSeq([i \in 1..(k - 1) |->
                            RefHeight(wrapped[i].font) + me.line_spacing])

\* the canvas of lines 348-369 for the wrapped lines
Canvas(me, wrapped) ==
    LET total_height == SumSeq([i \in 1..Len(wrapped) |->
                                   wrapped[i].line_height + me.line_spacing])
        max_width == SetMax({wrapped[i].line_width : i \in 1..Len(wrapped)})
        img_width == Min(me.max_width, max_width + me.padding * 2)
        img_height == total_height + me.padding * 2
        drawn == {i \in 1..Len(wrapped) : Strip(wrapped[i].text) # <<>>}
    IN  [kind |-> "image", width |-> img_width, height |-> img_height,
         content |-> [i \in drawn |->
                         [text |-> wrapped[i].text, font |-> wrapped[i].font,
                          x |-> me.padding, y |-> YOffset(me, wrapped, i)]],
         lines |-> wrapped,
         y_offset |-> YOffset(me, wrapped, Len(wrapped) + 1)]

text_to_image(me, text, is_markdown) ==
    Canvas(me, WrappedLines(rendered_lines(me, text, is_markdown)))

(***************************************************************************)
(* ImageBackend.generate_qr_code.  A payload is given by its length in     *)
(* bytes (byte mode).  QRCode.make(fit=True) starts at the configured      *)
(* version and takes the smallest version from there on whose capacity at  *)
(* error correction M holds the payload; it raises DataOverflowError when  *)
(* no version up to 40 does.                                               *)
(***************************************************************************)
\* byte capacity of versions 1..40 at error correction M
QrCapacity ==
    <<14, 26, 42, 62, 84, 106, 122, 152, 180, 213,
      251, 287, 331, 362, 412, 450, 504, 560, 624, 666,
      711, 779, 857, 911, 997, 1059, 1125, 1190, 1264, 1370,
      1452, 1538, 1628, 1722, 1809, 1911, 1989, 2099, 2213, 2331>>

\* the version the QRCode objects are created with
QrVersion == 1

\* the border, in modules, the QRCode objects are created with
QrBorder == 4

\* make(fit=False): the configured version is kept whatever the payload
best_fit_never(start, n) == IF n <= QrCapacity[start] THEN start ELSE 0

\* QRCode.best_fit(start): the version chosen, 0 for DataOverflowError
best_fit(start, n) ==
    SetMin({v \in start..Len(QrCapacity) : n <= QrCapacity[v]})

\* QRCode.modules_count
modules_count(version) == 17 + 4 * version

\* the pairs (max_width, width) of this model for which the double
\* max_width / width times width truncates to max_width - 1
RoundsDown == {<<1, 49>>, <<1, 161>>, <<100, 161>>}

\* int(height * (max_width / width)) in double arithmetic
ScaledHeight(height, max_width, width) ==
    IF <<max_width, width>> \in RoundsDown /\ height = width
    THEN (height * max_width) \div width - 1
    ELSE (height * max_width) \div width

\* generate_qr_code with the final resize left out
generate_qr_code_no_resize(me, data) ==
    LET version == best_fit(QrVersion, data)
        qr_modules == modules_count(version)
        available_width == me.max_width - QrBorder * 2
        optimal_box_size == Max(1, available_width \div qr_modules)
        side == (qr_modules + QrBorder * 2) * optimal_box_size
    IN  IF version = 0 THEN [kind |-> "error", exc |-> "DataOverflowError"]
        ELSE [kind |-> "image", width |-> side, height |-> side,
              content |-> <<[qr |-> data, version |-> version,
                             box_size |-> optimal_box_size]>>]

generate_qr_code(me, data) ==
    LET version == best_fit(QrVersion, data)
        qr_modules == modules_count(version)
        available_width == me.max_width - QrBorder * 2
        optimal_box_size == Max(1, available_width \div qr_modules)
        side == (qr_modules + QrBorder * 2) * optimal_box_size
        new_height == ScaledHeight(side, me.max_width, side)
    IN  IF version = 0 THEN [kind |-> "error", exc |-> "DataOverflowError"]
        ELSE IF side > me.max_width
            THEN IF new_height < 1
                 THEN [kind |-> "error", exc |-> "ValueError"]
                 ELSE [kind |-> "image", width |-> me.max_width,
                       height |-> new_height,
                       content |-> <<[qr |-> data, version |-> version,
                                      box_size |-> optimal_box_size]>>]
        ELSE [kind |-> "image", width |-> side, height |-> side,
              content |-> <<[qr |-> data, version |-> version,
                             box_size |-> optimal_box_size]>>]

(***************************************************************************)
(* ImageBackend.text_with_qr_to_image.  qr_data is the payload length, or  *)
(* NoData for None; "if qr_data" holds for a non-empty payload.            *)
(***************************************************************************)
NoData == -1

\* the combined canvas with the gap between text and QR bitmap left out
combine_no_gap(me, text_img, qr_img) ==
    LET total_height == text_img.height + qr_img.height
        combined_width == Max(text_img.width, qr_img.width)
        qr_x == (combined_width - qr_img.width) \div 2
    IN  [kind |-> "image", width |-> combined_width, height |-> total_height,
         content |-> <<[paste |-> text_img, x |-> 0, y |-> 0],
                       [paste |-> qr_img, x |-> qr_x,
                        y |-> text_img.height]>>]

\* the combined canvas with the QR bitmap pasted at the left edge
combine_qr_left(me, text_img, qr_img) ==
    LET total_height == text_img.height + qr_img.height + me.padding
        combined_width == Max(text_img.width, qr_img.width)
    IN  [kind |-> "image", width |-> combined_width, height |-> total_height,
         content |-> <<[paste |-> text_img, x |-> 0, y |-> 0],
                       [paste |-> qr_img, x |-> 0,
                        y |-> text_img.height + me.padding]>>]

\* lines 421-434: the combined canvas of a text canvas and a QR bitmap
combine(me, text_img, qr_img) ==
    LET total_height == text_img.height + qr_img.height + me.padding
        combined_width == Max(text_img.width, qr_img.width)
        qr_x == (combined_width - qr_img.width) \div 2
    IN  [kind |-> "image", width |-> combined_width, height |-> total_height,
         content |-> <<[paste |-> text_img, x |-> 0, y |-> 0],
                       [paste |-> qr_img, x |-> qr_x,
                        y |-> text_img.height + me.padding]>>]

text_with_qr_to_image(me, text, qr_data, is_markdown) ==
    LET text_img == text_to_image(me, text, is_markdown)
        qr_img == generate_qr_code(me, qr_data)
    IN  IF qr_data # NoData /\ qr_data > 0
        THEN IF qr_img.kind = "error" THEN qr_img
             ELSE combine(me, text_img, qr_img)
        ELSE text_img

(***************************************************************************)
(* utils.wrap_long_string and the fonts of utils.py.                       *)
(***************************************************************************)
FONT == truetype("OpenSans", 1, 48)

FONT_LARGE == truetype("OpenSans", 1, 80)

font_str_width(font, string) == getbbox(font, string).r - getbbox(font, string).l

RECURSIVE WrapWords(_, _, _, _, _)
\* the loop of wrap_long_string over the words still to place
WrapWords(words, current_line, lines, max_width, font) ==
    IF words = <<>> THEN Append(lines, Join(current_line, <<" ">>))
    ELSE LET word == Head(words)
             test_line == Join(Append(current_line, word), <<" ">>)
         IN  IF font_str_width(font, test_line) <= max_width
             THEN WrapWords(Tail(words), Append(current_line, word), lines,
                            max_width, font)
             ELSE WrapWords(Tail(words), <<word>>,
                            Append(lines, Join(current_line, <<" ">>)),
                            max_width, font)

wrap_long_string(long_text, max_width, font) ==
    Join(WrapWords(Split(long_text, " "), <<>>, <<>>, max_width, font), <<"\n">>)

NoResult == [kind |-> "none"]

NoArgs == [name |-> "none"]

\* no earlier call of text_with_qr_to_image is remembered
NoSnap == [taken |-> FALSE, args |-> NoArgs, result |-> NoResult, since |-> 0]

\* receipt widths the engine is configured with (512 is the default)
MaxWidths == {1, 100, 512}

\* line spacing the engine is configured with (the default)
LineSpacing == 6

(***************************************************************************)
(* Construction of an ImageBackend.                                        *)
(***************************************************************************)
InitNew ==
    /\ self = Unconstructed
    /\ op = "new"
    /\ args = NoArgs
    /\ result = NoResult
    /\ snap = NoSnap
    /\ ScriptOff
    /\ ServiceOff

ImageBackend_init ==
    /\ op = "new"
    /\ \E mw \in MaxWidths, fs \in 1..MaxFontSize, ld \in LoadOutcomes :
          /\ self' = Construct(mw, fs, LineSpacing, ld)
          /\ args' = [name |-> "__init__", max_width |-> mw, font_size |-> fs,
                      loads |-> ld]
    /\ op' = "__init__"
    /\ result' = NoResult
    /\ UNCHANGED <<snap, script, printer>>

NextCtor == ImageBackend_init

SpecCtor == InitNew /\ [][NextCtor]_vars

(***************************************************************************)
(* Constructed engines the rendering operations are run on.                *)
(***************************************************************************)
\* the default base font size of __init__
BaseFontSize == 24

AllLoaded ==
    [font |-> 1, arial |-> TRUE, bold |-> 1, h1 |-> 1, h2 |-> 1, h3 |-> 1,
     emoji |-> 1]

AllFailed ==
    [font |-> 0, arial |-> FALSE, bold |-> 0, h1 |-> 0, h2 |-> 0, h3 |-> 0,
     emoji |-> 0]

(***************************************************************************)
(* Parsing of markdown texts: the input is drawn at the start, the action  *)
(* applies _parse_markdown_to_formatted_lines to it.                       *)
(***************************************************************************)
\* markdown texts have 1..MaxLines lines
MaxLines == 3

MdLines ==
    { <<>>,
      <<"a", "|", "b">>, <<"-", "-", "|", "-", "-">>, <<"c", "|", "d">>,
      <<"|", "a", "|", "b", "|">>, <<"|", "-", "-", "|", "-", "-", "|">>,
      <<"|", "c", "|", "d", "|">>,
      <<"#", " ", "a">>, <<"*", "*", "a", "*", "*">>, <<"-", " ", "a">>,
      <<"1", ".", " ", "a">>, <<"a", "*", "b">>, <<"a">>, <<" ">> }

RECURSIVE TextsOf(_)
\* the texts of exactly n lines of MdLines, joined by line breaks
TextsOf(n) ==
    IF n = 1 THEN MdLines
    ELSE {t \o <<"\n">> \o l : t \in TextsOf(n - 1), l \in MdLines}

MdTexts == UNION {TextsOf(n) : n \in 1..MaxLines}

\* single lines with markers: inline spans, unpaired markers, headers,
\* bold lines with inner markers, both list prefixes
InlineLines ==
    { <<"a", "*", "b", "*", "c">>,
      <<"a", "*", "*", "b", "*", "*">>,
      <<"*", "a", "*">>,
      <<"a", "*", "*", "b", "*", "c">>,
      <<"*", "*", "a">>,
      <<"a", "*", "b", "*", "c", "*", "d">>,
      <<"#", "#", " ", "a">>,
      <<"#", "#", "#", " ", "a">>,
      <<"*", " ", "a">>,
      <<"*", "*", "a", "*", "*", "b", "*", "*">>,
      <<"*", "*", "*">>,
      <<"*", "*", "*", "*", "*", "*">>,
      <<"#", " ", " ", "a">> }

\* tables with a cell longer than the column cap, with ragged rows, and
\* with blank lines inside and after the block
TableTexts ==
    { <<"|", "a", "|", "b", "|", "\n", "|", "-", "|", "-", "|", "\n", "|", "c", "c", "c", "c", "c", "c", "c", "c", "c", "c", "c", "c", "c", "c", "c", "c", "|", "d", "|">>,
      <<"|", "a", "a", "a", "a", "a", "a", "a", "a", "a", "a", "a", "a", "a", "a", "|", "b", "|", "\n", "|", "-", "|", "-", "|", "\n", "|", "c", "|", "d", "|">>,
      <<"|", "a", "|", "b", "|", "\n", "|", "-", "|", "-", "|", "\n", "|", "c", "|", "\n", "|", "d", "|", "e", "|", "f", "|">>,
      <<"|", "a", "|", "b", "|", "\n", "|", "-", "|", "-", "|", "\n", "\n", "\n", "a">>,
      <<"|", "a", "|", "b", "|", "\n", "|", "-", "|", "-", "|", "\n", "\n", "|", "c", "|", "d", "|">>,
      <<"a", "\n", "\n", "\n", "b">> }

ParseTexts == MdTexts \cup InlineLines \cup TableTexts

\* lines and start indices _parse_table is applied to on its own
TableCallLines ==
    {<<>>, <<"a">>, <<"|", "a", "|", "b", "|">>, <<"|", "-", "|", "-", "|">>,
     <<"|", "c", "|">>}

TableCalls ==
    UNION {{[lines |-> ls, start_idx |-> k] : k \in 1..Len(ls)} :
              ls \in UNION {[1..n -> TableCallLines] : n \in 1..MaxLines}}

ParseBackends ==
    {Construct(512, BaseFontSize, LineSpacing, ld) : ld \in {AllLoaded, AllFailed}}

InitParse ==
    /\ self \in ParseBackends
    /\ op = "pending"
    /\ \/ \E t \in ParseTexts :
             args = [name |-> "_parse_markdown_to_formatted_lines", text |-> t]
       \/ \E c \in TableCalls :
             args = [name |-> "_parse_table", lines |-> c.lines,
                     start_idx |-> c.start_idx]
    /\ result = NoResult
    /\ snap = NoSnap
    /\ ScriptOff
    /\ ServiceOff

parse_markdown_call ==
    /\ op = "pending"
    /\ args.name = "_parse_markdown_to_formatted_lines"
    /\ result' = [kind |-> "lines",
                  lines |-> parse_markdown_to_formatted_lines(self, args.text)]
    /\ op' = "_parse_markdown_to_formatted_lines"
    /\ UNCHANGED <<self, args, snap, script, printer>>

\* the pair (formatted_table, i) _parse_table returns
TableResult(t) == [kind |-> "table", table |-> t.table, next |-> t.next]

parse_table_call ==
    /\ op = "pending"
    /\ args.name = "_parse_table"
    /\ result' = TableResult(parse_table(self, args.lines, args.start_idx))
    /\ op' = "_parse_table"
    /\ UNCHANGED <<self, args, snap, script, printer>>

NextParse == parse_markdown_call \/ parse_table_call

SpecParse == InitParse /\ [][NextParse]_vars

(***************************************************************************)
(* Tables (claim C3).                                                      *)
(***************************************************************************)
TableNoOuterPipes ==
    <<"a", "|", "b", "\n", "-", "-", "|", "-", "-", "\n", "c", "|", "d">>

TableOuterPipes ==
    <<"|", "a", "|", "b", "|", "\n", "|", "-", "-", "|", "-", "-", "|", "\n",
      "|", "c", "|", "d", "|">>

\* the table the spec describes: Bold "a  |b  ", seven dashes, Plain "c  |d  "
ExpectedTable(me) ==
    <<Styled(<<"a", " ", " ", "|", "b", " ", " ">>, me.bold_font),
      Styled(Rep("-", 7), me.font),
      Styled(<<"c", " ", " ", "|", "d", " ", " ">>, me.font)>>

\* C3: parsing "a|b\n--|--\nc|d" yields the Bold header line "a  |b  ",
\* then a separator of 7 dashes, then exactly one Plain data line "c  |d  "
\* (followed only by the blank spacing line).
C3_TableWithoutPipes ==
    (op = "_parse_markdown_to_formatted_lines" /\ args.text = TableNoOuterPipes)
        => /\ Len(result.lines) \in {3, 4}
           /\ SubSeq(result.lines, 1, 3) = ExpectedTable(self)
           /\ \A k \in 4..Len(result.lines) : result.lines[k].text = <<>>

\* what the code does with the same table written with enclosing pipes
Sanity_TableOuterPipes ==
    (op = "_parse_markdown_to_formatted_lines" /\ args.text = TableOuterPipes)
        => result.lines = ExpectedTable(self) \o <<Styled(<<>>, self.font)>>

\* what the code does on the table without enclosing pipes: all cells lost
Sanity_TableCellsLost ==
    (op = "_parse_markdown_to_formatted_lines" /\ args.text = TableNoOuterPipes)
        => result.lines = <<Styled(<<>>, self.bold_font), Styled(<<>>, self.font),
                            Styled(<<>>, self.font)>>

(***************************************************************************)
(* Rendering calls on a constructed engine, in any order and number.       *)
(* snap remembers one earlier call of text_with_qr_to_image (its arguments *)
(* and what it returned) and whether a different call was made since.      *)
(***************************************************************************)
RenderBackends ==
    {Construct(mw, BaseFontSize, LineSpacing, ld) :
        mw \in MaxWidths, ld \in {AllLoaded, AllFailed}}

LongWord == Rep("W", WrapColumns + 1)

TwoLongWords == Rep("W", 20) \o <<" ">> \o Rep("W", 20)

\* texts handed to text_with_qr_to_image
ComboTexts == {<<"a">>, LongWord, TableOuterPipes}

\* texts handed to text_to_image
RenderTexts ==
    ComboTexts \cup
    {<<>>, TwoLongWords, <<"a", "\n", "g">>, <<"#", " ", "W">>,
     <<"A", "g", "\n", "\n", "-">>}

\* payload lengths handed to generate_qr_code
QrPayloads == {0, 1, 14, 15, 27, 2331, 2332}

\* qr_data handed to text_with_qr_to_image
ComboPayloads == {NoData, 0, 1, 2331, 2332}

Constructed ==
    op \in {"__init__", "text_to_image", "generate_qr_code",
            "text_with_qr_to_image"}

\* the remembered call after one more call with arguments a
Later(sn, a) ==
    IF sn.taken /\ a # sn.args THEN [sn EXCEPT !.since = 1] ELSE sn

InitRender ==
    /\ self \in RenderBackends
    /\ op = "__init__"
    /\ args = NoArgs
    /\ result = NoResult
    /\ snap = NoSnap
    /\ ScriptOff
    /\ ServiceOff

text_to_image_call(texts) ==
    /\ Constructed
    /\ \E text \in texts, is_markdown \in BOOLEAN :
          /\ args' = [name |-> "text_to_image", text |-> text,
                      is_markdown |-> is_markdown]
          /\ result' = text_to_image(self, text, is_markdown)
    /\ op' = "text_to_image"
    /\ snap' = Later(snap, args')
    /\ UNCHANGED <<self, script, printer>>

generate_qr_code_call(payloads) ==
    /\ Constructed
    /\ \E data \in payloads :
          /\ args' = [name |-> "generate_qr_code", data |-> data]
          /\ result' = generate_qr_code(self, data)
    /\ op' = "generate_qr_code"
    /\ snap' = Later(snap, args')
    /\ UNCHANGED <<self, script, printer>>

\* a call that keeps the width of its result as the new max_width
text_with_qr_to_image_call_caching(texts, payloads, observed) ==
    /\ Constructed
    /\ \E text \in texts, qr_data \in payloads, is_markdown \in BOOLEAN :
          /\ args' = [name |-> "text_with_qr_to_image", text |-> text,
                      qr_data |-> qr_data, is_markdown |-> is_markdown]
          /\ result' = text_with_qr_to_image(self, text, qr_data, is_markdown)
    /\ op' = "text_with_qr_to_image"
    /\ snap' \in {Later(snap, args')} \cup
                 (IF observed
                  THEN {[taken |-> TRUE, args |-> args', result |-> result',
                         since |-> 0]}
                  ELSE {})
    /\ self' = IF result'.kind = "image"
               THEN [self EXCEPT !.max_width = result'.width] ELSE self
    /\ UNCHANGED <<script, printer>>

\* observed: the call may be the one snap remembers
text_with_qr_to_image_call(texts, payloads, observed) ==
    /\ Constructed
    /\ \E text \in texts, qr_data \in payloads, is_markdown \in BOOLEAN :
          /\ args' = [name |-> "text_with_qr_to_image", text |-> text,
                      qr_data |-> qr_data, is_markdown |-> is_markdown]
          /\ result' = text_with_qr_to_image(self, text, qr_data, is_markdown)
    /\ op' = "text_with_qr_to_image"
    /\ snap' \in {Later(snap, args')} \cup
                 (IF observed
                  THEN {[taken |-> TRUE, args |-> args', result |-> result',
                         since |-> 0]}
                  ELSE {})
    /\ UNCHANGED <<self, script, printer>>

NextRender ==
    \/ text_to_image_call(RenderTexts)
    \/ generate_qr_code_call(QrPayloads)
    \/ text_with_qr_to_image_call(ComboTexts, ComboPayloads, FALSE)

SpecRender == InitRender /\ [][NextRender]_vars

(***************************************************************************)
(* The same calls with one call of text_with_qr_to_image remembered, on    *)
(* fewer inputs.                                                           *)
(***************************************************************************)
CallTexts == {<<"a">>, LongWord}

CallPayloads == {NoData, 1, 2331}

InitCalls ==
    /\ InitRender
    /\ self \in {Construct(512, BaseFontSize, LineSpacing, AllLoaded),
                 Construct(100, BaseFontSize, LineSpacing, AllFailed)}

NextCalls ==
    \/ text_to_image_call(CallTexts)
    \/ generate_qr_code_call({1, 2332})
    \/ text_with_qr_to_image_call(CallTexts, CallPayloads, TRUE)

SpecCalls == InitCalls /\ [][NextCalls]_vars

(***************************************************************************)
(* Wrapping: wrap_long_string applied to an input drawn at the start, and  *)
(* text_to_image on an engine of the default width.                        *)
(***************************************************************************)
\* texts handed to wrap_long_string have 1..MaxWords words
MaxWords == 3

Words == {<<>>, <<"a">>, <<"W", "W">>, <<"W", "W", "W">>, Rep("W", 11)}

RECURSIVE PhrasesOf(_)
PhrasesOf(n) ==
    IF n = 1 THEN Words
    ELSE {t \o <<" ">> \o w : t \in PhrasesOf(n - 1), w \in Words}

Phrases == UNION {PhrasesOf(n) : n \in 1..MaxWords}

\* widths wrap_long_string is called with: MAX_WIDTH, MAX_WIDTH less the
\* padding of print_task, and a narrow image
WrapWidths == {100, 452, 512}

InitWrap ==
    /\ self = Unconstructed
    /\ op = "pending"
    /\ \E t \in Phrases, w \in WrapWidths, f \in {FONT, FONT_LARGE} :
          args = [name |-> "wrap_long_string", long_text |-> t,
                  max_width |-> w, font |-> f]
    /\ result = NoResult
    /\ snap = NoSnap
    /\ ScriptOff
    /\ ServiceOff

wrap_long_string_call ==
    /\ op = "pending"
    /\ args.name = "wrap_long_string"
    /\ result' = [kind |-> "text",
                  text |-> wrap_long_string(args.long_text, args.max_width,
                                            args.font)]
    /\ op' = "wrap_long_string"
    /\ UNCHANGED <<self, args, snap, script, printer>>

\* MAX_WIDTH of utils.py
MAX_WIDTH == 512

\* string.ascii_letters
ascii_letters ==
    <<"a", "b", "c", "d", "e", "f", "g", "h", "i", "j", "k", "l", "m",
      "n", "o", "p", "q", "r", "s", "t", "u", "v", "w", "x", "y", "z",
      "A", "B", "C", "D", "E", "F", "G", "H", "I", "J", "K", "L", "M",
      "N", "O", "P", "Q", "R", "S", "T", "U", "V", "W", "X", "Y", "Z">>

\* font_height(font, string): the box of the string (line 20) is replaced by
\* the box of ascii_letters (line 21) before it is used
font_height(font, string) ==
    LET of_string == getbbox(font, string)
        of_letters == getbbox(font, ascii_letters)
    IN  of_letters.b - of_letters.t

\* Image.new("L", (width, height), "#ffffff")
NewImage(width, height) ==
    [kind |-> "image", width |-> width, height |-> height, content |-> <<>>]

\* lines 50-62 of draw_string for the wrapped text: the text is drawn at
\* (x, pos[1]); wrap_width is the width it was wrapped to
DrawWrapped(image, font, wrapped, wrap_width, pos, padding_x, align) ==
    LET spare_space == image.width - font_str_width(font, wrapped)
                           - padding_x * 2
        x == pos[1] + padding_x
                 + (IF align = "center" /\ spare_space > 0
                        THEN spare_space \div 2
                    ELSE IF align = "right" /\ spare_space > 0
                        THEN spare_space
                    ELSE 0)
    IN  [image EXCEPT !.content =
            Append(@, [text |-> wrapped, font |-> font, x |-> x,
                       y |-> pos[2], wrap_width |-> wrap_width])]

\* draw_string(image, font, string, pos, padding_x, align)
draw_string(image, font, string, pos, padding_x, align) ==
    DrawWrapped(image, font,
                wrap_long_string(string, image.width - padding_x * 2, font),
                image.width - padding_x * 2, pos, padding_x, align)

\* print_text(text): the fifth positional argument of draw_string, here
\* MAX_WIDTH, is padding_x; align is left at its default
print_text(text) ==
    draw_string(NewImage(MAX_WIDTH,
                         font_height(FONT,
                                     wrap_long_string(text, MAX_WIDTH, FONT))),
                FONT, text, <<0, 0>>, MAX_WIDTH, "left")

InitPrintText ==
    /\ self = Unconstructed
    /\ op = "pending"
    /\ \E t \in Phrases : args = [name |-> "print_text", text |-> t]
    /\ result = NoResult
    /\ snap = NoSnap
    /\ ScriptOff
    /\ ServiceOff

print_text_call ==
    /\ op = "pending"
    /\ args.name = "print_text"
    /\ result' = print_text(args.text)
    /\ op' = "print_text"
    /\ UNCHANGED <<self, args, snap, script, printer>>

InitText ==
    \/ InitWrap
    \/ InitRender /\ self.max_width = 512
    \/ InitPrintText

NextText ==
    \/ text_to_image_call(RenderTexts)
    \/ wrap_long_string_call
    \/ print_text_call

SpecText == InitText /\ [][NextText]_vars

(***************************************************************************)
(* Wrapped lines and canvas sizes (claims C1, C2, C6).                     *)
(***************************************************************************)
\* C1: every sub-line produced by wrapping is at most as wide, in pixels
\* under its font, as the content width it was wrapped for: max_width less
\* twice the padding in text_to_image, the max_width argument in
\* wrap_long_string; also when a single word is wider than that.
C1_SubLinesFit ==
    /\ op = "text_to_image" =>
          \A i \in 1..Len(result.lines) :
              BoxWidth(result.lines[i].font, result.lines[i].text)
                  <= self.max_width - 2 * self.padding
    /\ op = "wrap_long_string" =>
          LET sub == Split(result.text, "\n")
          IN  \A i \in 1..Len(sub) :
                  font_str_width(args.font, sub[i]) <= args.max_width

\* C2: every bitmap returned (by text_to_image, generate_qr_code or
\* text_with_qr_to_image) is at most max_width wide.
C2_WidthBounded ==
    (Constructed /\ result.kind = "image") => result.width <= self.max_width

\* C2 witness: a QR bitmap that came out wider than max_width at its box
\* size and was returned with width max_width.
C2_Witness ==
    /\ op = "generate_qr_code"
    /\ result.kind = "image"
    /\ (modules_count(result.content[1].version) + QrBorder * 2)
           * result.content[1].box_size > self.max_width
    /\ result.width = self.max_width
    /\ self.max_width = 512

\* C6: the canvas text_to_image returns is 2 x padding plus, over all
\* wrapped lines, the reference glyph height of the line's font plus
\* line_spacing high, and the drawing pass ends at y_offset = height less
\* padding.
C6_HeightIsAdvance ==
    op = "text_to_image" =>
        /\ result.height =
              2 * self.padding
              + SumSeq([i \in 1..Len(result.lines) |->
                           RefHeight(result.lines[i].font) + self.line_spacing])
        /\ result.y_offset = result.height - self.padding

Combined ==
    /\ op = "text_with_qr_to_image"
    /\ args.qr_data > 0
    /\ result.kind = "image"

TextPaste == result.content[1]

QrPaste == result.content[2]

Centred(p) == p.x = (result.width - p.paste.width) \div 2

\* C5 as stated: whichever of text canvas and QR bitmap is narrower is
\* centred in the combined canvas and the wider one starts at x = 0.
C5_Original ==
    Combined =>
        /\ QrPaste.paste.width < TextPaste.paste.width =>
              Centred(QrPaste) /\ TextPaste.x = 0
        /\ TextPaste.paste.width < QrPaste.paste.width =>
              Centred(TextPaste) /\ QrPaste.x = 0

\* C5 amended: the QR bitmap is at left offset floor((combined width - its
\* width) / 2), so it is centred when it is the narrower one and starts at
\* x = 0 when it is the wider one; the text canvas always starts at x = 0,
\* also when it is the narrower one.
C5_QrCentredTextLeft ==
    Combined =>
        /\ Centred(QrPaste)
        /\ TextPaste.x = 0
        /\ QrPaste.paste.width >= TextPaste.paste.width => QrPaste.x = 0
        /\ result.width = Max(TextPaste.paste.width, QrPaste.paste.width)

\* C5 witness: a QR bitmap narrower than the text canvas, pasted at a
\* positive offset.
C5_Witness ==
    /\ Combined
    /\ QrPaste.paste.width < TextPaste.paste.width
    /\ QrPaste.x > 0
    /\ QrPaste.x = (TextPaste.paste.width - QrPaste.paste.width) \div 2

\* C7: with a non-empty payload the combined canvas is text height + QR
\* height + padding high, the text canvas is at rows [0, text height), the
\* QR bitmap starts at row text height + padding and ends at the canvas
\* bottom; with no payload the text canvas itself is returned.
C7_Stacked ==
    /\ Combined =>
          /\ result.height =
                TextPaste.paste.height + QrPaste.paste.height + self.padding
          /\ TextPaste.y = 0
          /\ QrPaste.y = TextPaste.paste.height + self.padding
          /\ QrPaste.y >= TextPaste.y + TextPaste.paste.height
          /\ QrPaste.y + QrPaste.paste.height = result.height
          /\ TextPaste.paste = text_to_image(self, args.text, args.is_markdown)
    /\ (op = "text_with_qr_to_image" /\ args.qr_data <= 0) =>
          result = text_to_image(self, args.text, args.is_markdown)

\* C7 witness: a combined canvas whose QR bitmap starts padding rows below
\* the text canvas.
C7_Witness ==
    /\ Combined
    /\ TextPaste.paste.height > 0
    /\ QrPaste.paste.height > 0
    /\ QrPaste.y = TextPaste.paste.height + 20

Variants == {"bold", "h1", "h2", "h3", "emoji"}

FieldOf(v) ==
    CASE v = "bold" -> self.bold_font
      [] v = "h1" -> self.h1_font
      [] v = "h2" -> self.h2_font
      [] v = "h3" -> self.h3_font
      [] v = "emoji" -> self.emoji_font

LoadOf(v) ==
    CASE v = "bold" -> args.loads.bold
      [] v = "h1" -> args.loads.h1
      [] v = "h2" -> args.loads.h2
      [] v = "h3" -> args.loads.h3
      [] v = "emoji" -> args.loads.emoji

\* C9: whatever loads succeed or fail, construction ends with font,
\* bold_font, h1_font, h2_font, h3_font and emoji_font all set (never None),
\* and a variant whose candidates all failed is the very same asset as the
\* Plain font.
C9_FontsTotal ==
    op = "__init__" =>
        /\ self.font # None
        /\ \A v \in Variants :
              /\ FieldOf(v) # None
              /\ LoadOf(v) = 0 => FieldOf(v) = self.font

\* C9 witness: a construction in which every single load failed.
C9_Witness ==
    /\ op = "__init__"
    /\ args.loads.font = 0 /\ ~args.loads.arial
    /\ \A v \in Variants : LoadOf(v) = 0
    /\ self.font = load_default
    /\ self.emoji_font = load_default

HeaderMult(v) == CASE v = "h1" -> 18 [] v = "h2" -> 15 [] v = "h3" -> 12

Outcomes == {"ok", "UnicodeEncodeError", "OSError"}

\* a character outside the repertoire of the text fonts
Snowman == "snowman"

DrawAlphabet == {"a", Snowman}

\* lines handed to the drawing routine have 1..MaxDrawLen characters
MaxDrawLen == 2

DrawLines == UNION {[1..n -> DrawAlphabet] : n \in 1..MaxDrawLen}

\* what rendering does per character: under the primary font (the
\* replacement character '?' included) and under the symbol font
RenderEnvs ==
    [prim : [DrawAlphabet \cup {"?"} -> Outcomes], sym : [DrawAlphabet -> Outcomes]]

\* draw.text((x, y), text, font=font) of the whole line: the exception of
\* the first character that cannot be drawn, "ok" when there is none
WholeLine(env, text) ==
    LET bad == {i \in 1..Len(text) : env.prim[text[i]] # "ok"}
    IN  IF bad = {} THEN "ok" ELSE env.prim[text[SetMin(bad)]]

Drawn(text, font, x) == [text |-> text, font |-> font, x |-> x]

\* the body of the per-character loop for one character at current_x: the
\* draw.text call that returned and the width to advance by, or the
\* exception that leaves the handler chain
draw_char(me, font, char, current_x, env) ==
    IF env.prim[char] = "ok"
    THEN [kind |-> "ok", drawn |-> Drawn(<<char>>, font, current_x),
          char_width |-> BoxWidth(font, <<char>>)]
    ELSE IF env.sym[char] = "ok"
    THEN [kind |-> "ok", drawn |-> Drawn(<<char>>, me.emoji_font, current_x),
          char_width |-> BoxWidth(me.emoji_font, <<char>>)]
    ELSE IF env.prim["?"] = "ok"
    THEN [kind |-> "ok", drawn |-> Drawn(<<"?">>, font, current_x),
          char_width |-> BoxWidth(font, <<"?">>)]
    ELSE [kind |-> "error", exc |-> env.prim["?"]]

RECURSIVE draw_chars(_, _, _, _, _, _)
\* the loop "for char in text" from the k-th character on, done holding
\* the draw.text calls that returned so far
draw_chars(me, font, rest, current_x, env, done) ==
    IF rest = <<>> THEN [kind |-> "drawn", ops |-> done]
    ELSE LET c == draw_char(me, font, Head(rest), current_x, env)
         IN  IF c.kind = "error" THEN [kind |-> "error", exc |-> c.exc]
             ELSE draw_chars(me, font, Tail(rest), current_x + c.char_width,
                             env, Append(done, c.drawn))

\* ImageBackend._draw_text_with_emoji_support(draw, (x, y), text, font)
draw_text_with_emoji_support(me, x, text, font, env) ==
    LET whole == WholeLine(env, text)
    IN  IF whole = "ok"
        THEN [kind |-> "drawn", ops |-> <<Drawn(text, font, x)>>]
        ELSE IF whole = "UnicodeEncodeError"
        THEN draw_chars(me, font, text, x, env, <<>>)
        ELSE [kind |-> "error", exc |-> whole]

DrawBackends ==
    {Construct(512, BaseFontSize, LineSpacing, ld) :
        ld \in {AllLoaded, [AllLoaded EXCEPT !.emoji = 0]}}

InitDraw ==
    /\ self \in DrawBackends
    /\ op = "pending"
    /\ \E t \in DrawLines, e \in RenderEnvs :
          args = [name |-> "_draw_text_with_emoji_support", text |-> t,
                  font |-> self.font, x |-> self.padding, env |-> e]
    /\ result = NoResult
    /\ snap = NoSnap
    /\ ScriptOff
    /\ ServiceOff

draw_text_call ==
    /\ op = "pending"
    /\ args.name = "_draw_text_with_emoji_support"
    /\ result' = draw_text_with_emoji_support(self, args.x, args.text,
                                              args.font, args.env)
    /\ op' = "_draw_text_with_emoji_support"
    /\ UNCHANGED <<self, args, snap, script, printer>>

NextDraw == draw_text_call

SpecDraw == InitDraw /\ [][NextDraw]_vars

\* C11: _draw_text_with_emoji_support returns normally whatever
\* UnicodeEncodeError or OSError the primary or the symbol font raises: a
\* character the primary font cannot draw is drawn with the symbol font,
\* with '?' if that fails too, every other character is still drawn, and
\* nothing is raised to text_to_image.
C11_DrawNeverRaises ==
    op = "_draw_text_with_emoji_support" =>
        /\ result.kind = "drawn"
        /\ \/ result.ops = <<Drawn(args.text, args.font, args.x)>>
           \/ /\ Len(result.ops) = Len(args.text)
              /\ \A k \in 1..Len(args.text) :
                    LET c == args.text[k]
                    IN  result.ops[k].text =
                            IF args.env.prim[c] = "ok" \/ args.env.sym[c] = "ok"
                            THEN <<c>> ELSE <<"?">>

\* what the code does guarantee: a UnicodeEncodeError of the whole line is
\* recovered character by character as long as '?' itself can be drawn
Sanity_DrawRecovers ==
    (/\ op = "_draw_text_with_emoji_support"
     /\ WholeLine(args.env, args.text) = "UnicodeEncodeError"
     /\ args.env.prim["?"] = "ok")
        => /\ result.kind = "drawn"
           /\ Len(result.ops) = Len(args.text)

\* an OSError of the whole-line attempt leaves the routine
Sanity_DrawOSErrorRaised ==
    (/\ op = "_draw_text_with_emoji_support"
     /\ WholeLine(args.env, args.text) = "OSError")
        => result = [kind |-> "error", exc |-> "OSError"]

(***************************************************************************)
(* The abort of _parse_table (claim C12).                                  *)
(***************************************************************************)
\* _parse_table was applied to a block of fewer than two non-blank rows
Aborted ==
    /\ op = "_parse_table"
    /\ Len(table_lines(args.lines, args.start_idx)) < 2

\* what _parse_markdown_to_formatted_lines appends for the block: the
\* returned table and the spacing line
Emitted == result.table \o <<Styled(<<>>, self.font)>>

\* C12 as stated: when a table block captures fewer than two non-blank
\* rows, exactly one input line is consumed and that line is emitted as a
\* Plain line carrying its text, so no input text is lost.
C12_Original ==
    Aborted =>
        /\ result.next = args.start_idx + 1
        /\ \E k \in 1..Len(Emitted) :
              Emitted[k] = Styled(Strip(args.lines[args.start_idx]), self.font)

\* C12 amended: on a block of fewer than two non-blank rows _parse_table
\* returns no line at all and resumes one line further, so the text of the
\* line would be dropped; and the branch is dead code under the parser,
\* whose table test holds only where _parse_table collects at least the
\* two lines tested.
C12_AbortEmptyAndUnreachable ==
    /\ Aborted => result.table = <<>> /\ result.next = args.start_idx + 1
    /\ op = "_parse_markdown_to_formatted_lines" =>
          LET lines == Split(args.text, "\n")
          IN  \A i \in 1..Len(lines) :
                 OpensTable(lines, i) => Len(table_lines(lines, i)) >= 2

\* an abort on a line that carries text and contains a pipe
C12_Witness ==
    /\ Aborted
    /\ Contains(Strip(args.lines[args.start_idx]), "|")
    /\ result.table = <<>>
    /\ result.next = args.start_idx + 1

(***************************************************************************)
(* Column widths of tables (claim C13).                                    *)
(***************************************************************************)
\* the parser was applied to a text whose first line opens a table with
\* at least one header cell
TableParsed ==
    /\ op = "_parse_markdown_to_formatted_lines"
    /\ OpensTable(Split(args.text, "\n"), 1)
    /\ header_cells(table_lines(Split(args.text, "\n"), 1)) # <<>>

\* the length of the longest cell of column c among the rows
Longest(rows, c) == SetMax({Len(CellOr(rows[r], c)) : r \in 1..Len(rows)})

\* C13: each column is min(longest cell + 2, 15) wide, each cell of the
\* header row and of every data row occupies exactly its column's width,
\* and so the header, the dash separator and the data rows all have the
\* length sum of the widths + (number of columns - 1); also with cells
\* longer than 15 characters and with ragged data rows.
C13_RowsAligned ==
    TableParsed =>
        LET tl == table_lines(Split(args.text, "\n"), 1)
            rows == <<header_cells(tl)>> \o data_rows(tl)
            ncols == Len(header_cells(tl))
            width == [c \in 1..ncols |-> Min(Longest(rows, c) + 2, MaxColWidth)]
            total == SumSeq(width) + (ncols - 1)
            emitted == [k \in 1..(Len(rows) + 1) |-> result.lines[k].text]
        IN  /\ \A k \in 1..Len(emitted) : Len(emitted[k]) = total
            /\ \A k \in {1} \cup 3..Len(emitted) :
                  /\ Len(Split(emitted[k], "|")) = ncols
                  /\ \A c \in 1..ncols : Len(Split(emitted[k], "|")[c]) = width[c]

\* what does hold: a table none of whose cells is longer than the cap is
\* aligned
Sanity_ShortCellsAligned ==
    TableParsed =>
        LET tl == table_lines(Split(args.text, "\n"), 1)
            rows == <<header_cells(tl)>> \o data_rows(tl)
        IN  (\A c \in 1..Len(rows[1]) : Longest(rows, c) <= MaxColWidth)
                => \A k \in 1..(Len(rows) + 1) :
                      Len(result.lines[k].text) = Len(result.lines[1].text)

(***************************************************************************)
(* wrap_long_string as a re-breaking of the text (claim C14).              *)
(***************************************************************************)
\* s with every line break replaced by one space
Unbroken(s) == [i \in 1..Len(s) |-> IF s[i] = "\n" THEN " " ELSE s[i]]

\* C14: replacing each line break of wrap_long_string(text, max_width,
\* font) by a space gives back text exactly, and no empty sub-line is
\* introduced (a text without empty words has no empty sub-line unless it
\* is blank), also when the first word alone is wider than max_width; a
\* blank text yields exactly one empty sub-line.
C14_RoundTrip ==
    op = "wrap_long_string" =>
        /\ Unbroken(result.text) = args.long_text
        /\ (args.long_text # <<>>
               /\ \A w \in 1..Len(Split(args.long_text, " ")) :
                     Split(args.long_text, " ")[w] # <<>>)
              => \A k \in 1..Len(Split(result.text, "\n")) :
                    Split(result.text, "\n")[k] # <<>>
        /\ args.long_text = <<>> => Split(result.text, "\n") = << <<>> >>

\* what does hold: the round trip, unless the first word is wider than
\* max_width
Sanity_RoundTripUnlessFirstWordWide ==
    (/\ op = "wrap_long_string"
     /\ font_str_width(args.font, Split(args.long_text, " ")[1]) <= args.max_width)
        => Unbroken(result.text) = args.long_text

\* a first word wider than max_width is preceded by an empty sub-line
Sanity_WideFirstWordAfterEmptyLine ==
    (/\ op = "wrap_long_string"
     /\ font_str_width(args.font, Split(args.long_text, " ")[1]) > args.max_width)
        => /\ Split(result.text, "\n")[1] = <<>>
           /\ Unbroken(result.text) = <<" ">> \o args.long_text

(***************************************************************************)
(* Blank lines (claim C15).                                                *)
(***************************************************************************)
Parsed == op = "_parse_markdown_to_formatted_lines"

InputLines == Split(args.text, "\n")

BlankInputs == {i \in 1..Len(InputLines) : Strip(InputLines[i]) = <<>>}

EmptyOutputs == {k \in 1..Len(result.lines) : result.lines[k].text = <<>>}

\* no line of the input opens a table
NoTable == \A i \in 1..Len(InputLines) : ~OpensTable(InputLines, i)

\* the input is one table block: its first two lines contain '|', every
\* further line contains '|' or is blank, and the header has a cell
OneBlock ==
    /\ OpensTable(InputLines, 1)
    /\ \A i \in 1..Len(InputLines) :
          Contains(InputLines[i], "|") \/ Strip(InputLines[i]) = <<>>
    /\ header_cells(table_lines(InputLines, 1)) # <<>>

\* C15 as stated: every blank input line gives exactly one empty Plain
\* line at the corresponding position, also inside and directly after a
\* table block, and the output never has fewer empty lines than the input
\* has blank lines.
C15_Original ==
    Parsed =>
        /\ Cardinality(EmptyOutputs) >= Cardinality(BlankInputs)
        /\ NoTable =>
              /\ Len(result.lines) = Len(InputLines)
              /\ \A i \in BlankInputs : result.lines[i] = Styled(<<>>, self.font)

\* C15 amended: outside table blocks every blank input line gives exactly
\* one empty Plain line at its own position; the blank lines a table block
\* scans, inside it and after it, give no line, and the block ends with
\* exactly one empty spacing line whatever their number.
C15_BlankLinesOutsideTables ==
    Parsed =>
        /\ NoTable =>
              /\ Len(result.lines) = Len(InputLines)
              /\ \A i \in BlankInputs : result.lines[i] = Styled(<<>>, self.font)
        /\ OneBlock =>
              /\ EmptyOutputs = {Len(result.lines)}
              /\ Len(result.lines)
                     <= Len(InputLines) - Cardinality(BlankInputs) + 1

\* a table block with a blank line inside and one with two blank lines
\* after it, each giving one empty line
C15_Witness ==
    /\ Parsed
    /\ OneBlock
    /\ Cardinality(BlankInputs) >= 1
    /\ BlankInputs # {Len(InputLines)}
    /\ Cardinality(EmptyOutputs) = 1

(***************************************************************************)
(* Inline markers (claim C16).                                             *)
(***************************************************************************)
NoStars(s) == SelectSeq(s, LAMBDA c : c # "*")

Stars(s) == Len(s) - Len(NoStars(s))

\* a stripped line that reaches the inline branch of the elif chain: no
\* header, no whole-line bold, no list item, no numbered item, and a '*'
InlineCase(line) ==
    /\ ~StartsWith(line, <<"#", " ">>)
    /\ ~StartsWith(line, <<"#", "#", " ">>)
    /\ ~StartsWith(line, <<"#", "#", "#", " ">>)
    /\ ~(StartsWith(line, <<"*", "*">>) /\ EndsWith(line, <<"*", "*">>))
    /\ ~StartsWith(line, <<"-", " ">>)
    /\ ~StartsWith(line, <<"*", " ">>)
    /\ ~IsNumbered(line)
    /\ Contains(line, "*")

\* the lines of a parsed text without tables that reach the inline branch
InlineInputs ==
    IF Parsed /\ NoTable
    THEN {i \in 1..Len(InputLines) : InlineCase(Strip(InputLines[i]))}
    ELSE {}

\* C16 as stated: the Plain text emitted for a line of the inline branch
\* contains no '*' at all, paired or unpaired, and keeps all other
\* characters in order.
C16_Original ==
    \A i \in InlineInputs :
        /\ result.lines[i].font = self.font
        /\ result.lines[i].text = NoStars(Strip(InputLines[i]))

\* C16 amended: the Plain text emitted for a line of the inline branch
\* keeps all characters other than '*' in order and loses the asterisks in
\* pairs: none is left when the line holds an even number of them, exactly
\* one (an unpaired one) when it holds an odd number.
C16_PairsStripped ==
    \A i \in InlineInputs :
        /\ result.lines[i].font = self.font
        /\ NoStars(result.lines[i].text) = NoStars(Strip(InputLines[i]))
        /\ Stars(result.lines[i].text) = Stars(Strip(InputLines[i])) % 2
        /\ Stars(Strip(InputLines[i])) = 1
              => result.lines[i].text = Strip(InputLines[i])

\* a line with three asterisks comes out with one
C16_Witness ==
    \E i \in InlineInputs :
        /\ Stars(Strip(InputLines[i])) = 3
        /\ Stars(result.lines[i].text) = 1

(***************************************************************************)
(* The rules for single lines (claim C17).                                 *)
(***************************************************************************)
\* p occurs in s
Occurs(s, p) == \E i \in 1..(Len(s) - Len(p) + 1) : SubSeq(s, i, i + Len(p) - 1) = p

\* C17: without tables, parsing emits exactly one styled line per input
\* line, in order, by the first matching rule: the prefix '# ', '## ' or
\* '### ' gives Header1/2/3 with exactly the prefix removed; a line that
\* starts and ends with '**' gives Bold, its text the line without the
\* wrapping markers and free of '**'; the prefix '- ' or '* ' gives the
\* bullet glyph, a space, and the rest of the line.
C17_FirstMatchingRule ==
    (Parsed /\ NoTable) =>
        /\ Len(result.lines) = Len(InputLines)
        /\ \A i \in 1..Len(InputLines) :
              LET line == Strip(InputLines[i])
                  out == result.lines[i]
              IN  IF StartsWith(line, <<"#", " ">>)
                  THEN out = Styled(From(line, 2), self.h1_font)
                  ELSE IF StartsWith(line, <<"#", "#", " ">>)
                  THEN out = Styled(From(line, 3), self.h2_font)
                  ELSE IF StartsWith(line, <<"#", "#", "#", " ">>)
                  THEN out = Styled(From(line, 4), self.h3_font)
                  ELSE IF StartsWith(line, <<"*", "*">>) /\ EndsWith(line, <<"*", "*">>)
                  THEN /\ out = Styled(SubSeq(line, 3, Len(line) - 2), self.bold_font)
                       /\ ~Occurs(out.text, <<"*", "*">>)
                  ELSE IF StartsWith(line, <<"-", " ">>) \/ StartsWith(line, <<"*", " ">>)
                  THEN out = Styled(<<Bullet, " ">> \o From(line, 2), self.font)
                  ELSE TRUE

\* what does hold: the rules as stated, except that the Bold text may
\* still contain '**'
Sanity_RulesButInnerMarkers ==
    (Parsed /\ NoTable) =>
        /\ Len(result.lines) = Len(InputLines)
        /\ \A i \in 1..Len(InputLines) :
              LET line == Strip(InputLines[i])
                  out == result.lines[i]
              IN  IF StartsWith(line, <<"#", " ">>)
                  THEN out = Styled(From(line, 2), self.h1_font)
                  ELSE IF StartsWith(line, <<"#", "#", " ">>)
                  THEN out = Styled(From(line, 3), self.h2_font)
                  ELSE IF StartsWith(line, <<"#", "#", "#", " ">>)
                  THEN out = Styled(From(line, 4), self.h3_font)
                  ELSE IF StartsWith(line, <<"*", "*">>) /\ EndsWith(line, <<"*", "*">>)
                  THEN out = Styled(SubSeq(line, 3, Len(line) - 2), self.bold_font)
                  ELSE IF StartsWith(line, <<"-", " ">>) \/ StartsWith(line, <<"*", " ">>)
                  THEN out = Styled(<<Bullet, " ">> \o From(line, 2), self.font)
                  ELSE TRUE

(***************************************************************************)
(* The motion-capture script.  The sensor thread runs the callbacks        *)
(* motion_detected and no_motion one at a time; every threading.Timer is a *)
(* thread of its own that waits for the interval, finds itself not         *)
(* cancelled, and calls reset_capture.  pc is the position of the sensor   *)
(* thread, timers the Timer objects created so far, cooldown_timer the     *)
(* index of the one the global names (0 for None).  Time passes in ticks;  *)
(* a timer that is due fires before the next tick.  hist records what the  *)
(* properties speak of: the motion events so far, the time since the last  *)
(* one (quiet), whether a whole cooldown without motion has passed since   *)
(* the last capture (gap), whether that was so at the last capture         *)
(* (gap_ok), how the last call of capture_and_post_image went, whether a   *)
(* timer called reset_capture after it was cancelled (late) and whether    *)
(* one was between firing and reset_capture while the sensor thread was    *)
(* inside motion_detected (raced).                                         *)
(***************************************************************************)
\* threading.Timer(60.0, reset_capture)
Cooldown == 60

\* seconds per tick
TickSeconds == 20

\* motion events in one run
MaxMotion == 3

NewTimer == [st |-> "waiting", left |-> Cooldown, cancelled |-> FALSE]

\* Timer.cancel(): a waiting timer ends without calling its function, one
\* that is past its check or has finished is no longer stopped
cancel(t) ==
    IF t.st = "waiting" THEN [st |-> "cancelled", left |-> 0, cancelled |-> TRUE]
    ELSE [t EXCEPT !.cancelled = TRUE]

\* the timers still waiting for their interval
Pending == {id \in 1..Len(timers) : timers[id].st = "waiting"}

\* the timers that will still call reset_capture
Live == {id \in 1..Len(timers) : timers[id].st \in {"waiting", "running"}}

InitMotion ==
    /\ self = Unconstructed
    /\ op = "script"
    /\ args = NoArgs
    /\ result = NoResult
    /\ snap = NoSnap
    /\ can_capture = TRUE
    /\ cooldown_timer = 0
    /\ timers = <<>>
    /\ pc = "idle"
    /\ pir = FALSE
    /\ hist = [motions |-> 0, quiet |-> 0, gap |-> FALSE, captured |-> FALSE,
               gap_ok |-> TRUE, outcome |-> "none", late |-> FALSE,
               raced |-> FALSE]
    /\ ServiceOff

\* the sensor reports motion and motion_detected tests can_capture
motion_detected ==
    /\ pc = "idle"
    /\ ~pir
    /\ hist.motions < MaxMotion
    /\ pir' = TRUE
    /\ pc' = IF can_capture THEN "capture" ELSE "cancel"
    /\ hist' = [hist EXCEPT !.motions = @ + 1, !.quiet = 0,
                            !.raced = @ \/ Live # Pending]
    /\ UNCHANGED <<can_capture, cooldown_timer, timers, engine, printer>>

\* capture_and_post_image(): the picture is taken and posted, or the
\* camera or the request fails inside the try and is reported, or
\* Picamera2() raises before the try, which ends the callback with no
\* capture made
capture_and_post_image ==
    /\ pc = "capture"
    /\ \E outcome \in {"posted", "failed", "raised"} :
          /\ hist' = IF outcome = "raised"
                     THEN [hist EXCEPT !.outcome = outcome]
                     ELSE [hist EXCEPT !.outcome = outcome,
                                       !.gap_ok = ~hist.captured \/ hist.gap,
                                       !.captured = TRUE, !.gap = FALSE]
          /\ pc' = IF outcome = "raised" THEN "idle" ELSE "set_false"
    /\ UNCHANGED <<can_capture, cooldown_timer, timers, pir, engine, printer>>

\* can_capture = False
can_capture_false ==
    /\ pc = "set_false"
    /\ can_capture' = FALSE
    /\ pc' = "cancel"
    /\ UNCHANGED <<cooldown_timer, timers, pir, hist, engine, printer>>

\* start_cooldown_timer(): if cooldown_timer: cooldown_timer.cancel()
start_cooldown_timer_cancel ==
    /\ pc = "cancel"
    /\ timers' = IF cooldown_timer # 0
                 THEN [timers EXCEPT ![cooldown_timer] = cancel(@)]
                 ELSE timers
    /\ pc' = "start"
    /\ UNCHANGED <<can_capture, cooldown_timer, pir, hist, engine, printer>>

\* a start_cooldown_timer that creates the Timer and does not start it
start_cooldown_timer_unstarted ==
    /\ pc = "start"
    /\ timers' = Append(timers, [NewTimer EXCEPT !.st = "created"])
    /\ cooldown_timer' = Len(timers) + 1
    /\ pc' = "idle"
    /\ UNCHANGED <<can_capture, pir, hist, engine, printer>>

\* start_cooldown_timer(): the new Timer is created and started
start_cooldown_timer_start ==
    /\ pc = "start"
    /\ timers' = Append(timers, NewTimer)
    /\ cooldown_timer' = Len(timers) + 1
    /\ pc' = "idle"
    /\ UNCHANGED <<can_capture, pir, hist, engine, printer>>

\* the sensor reports that motion stopped
no_motion ==
    /\ pc = "idle"
    /\ pir
    /\ pir' = FALSE
    /\ UNCHANGED <<can_capture, cooldown_timer, timers, pc, hist, engine, printer>>

\* Timer.run(): the wait is over and the timer finds itself not cancelled
timer_fires(id) ==
    /\ timers[id].st = "waiting"
    /\ timers[id].left = 0
    /\ timers' = [timers EXCEPT ![id].st = "running"]
    /\ hist' = [hist EXCEPT !.raced = @ \/ pc # "idle"]
    /\ UNCHANGED <<can_capture, cooldown_timer, pc, pir, engine, printer>>

\* reset_capture() on the thread of timer id
reset_capture(id) ==
    /\ timers[id].st = "running"
    /\ can_capture' = TRUE
    /\ timers' = [timers EXCEPT ![id].st = "done"]
    /\ hist' = [hist EXCEPT !.late = @ \/ timers[id].cancelled,
                            !.raced = @ \/ pc # "idle"]
    /\ UNCHANGED <<cooldown_timer, pc, pir, engine, printer>>

\* TickSeconds pass; no timer is due or about to call its function
Tick ==
    /\ pc # "off"
    /\ \A id \in 1..Len(timers) :
          /\ timers[id].st # "running"
          /\ timers[id].st = "waiting" => timers[id].left > 0
    /\ timers' = [id \in 1..Len(timers) |->
                     IF timers[id].st = "waiting"
                     THEN [timers[id] EXCEPT !.left = Max(0, @ - TickSeconds)]
                     ELSE timers[id]]
    /\ hist' = [hist EXCEPT !.quiet = Min(Cooldown, @ + TickSeconds),
                            !.gap = @ \/ hist.quiet + TickSeconds >= Cooldown]
    /\ UNCHANGED <<can_capture, cooldown_timer, pc, pir, engine, printer>>

TimerFires == \E id \in 1..Len(timers) : timer_fires(id)

ResetCapture == \E id \in 1..Len(timers) : reset_capture(id)

NextMotion ==
    \/ motion_detected
    \/ capture_and_post_image
    \/ can_capture_false
    \/ start_cooldown_timer_cancel
    \/ start_cooldown_timer_start
    \/ no_motion
    \/ TimerFires
    \/ ResetCapture
    \/ Tick

SpecMotion == InitMotion /\ [][NextMotion]_vars

\* the threads keep running and time passes; a capture may hang (the
\* request has no timeout) and motion may stop for good
SpecMotionFair ==
    /\ SpecMotion
    /\ WF_vars(can_capture_false)
    /\ WF_vars(start_cooldown_timer_cancel)
    /\ WF_vars(start_cooldown_timer_start)
    /\ WF_vars(TimerFires)
    /\ WF_vars(ResetCapture)
    /\ WF_vars(Tick)

(***************************************************************************)
(* Cooldown between captures (claims C18, C19, C20).                       *)
(***************************************************************************)
\* C18: with motion events handled one at a time, a capture is taken only
\* when can_capture is true, a motion event during cooldown takes no
\* capture and goes on to restart the timer, every capture that returns
\* is followed by can_capture = False and a restart of the timer, and
\* between any two consecutive captures there is a period of at least
\* 60 s without any motion event.
C18_CooldownBetweenCaptures ==
    /\ [](hist.gap_ok)
    /\ [][pc' = "capture" => can_capture]_vars
    /\ [][(pc = "idle" /\ pc' # "idle" /\ ~can_capture) => pc' = "cancel"]_vars
    /\ [][(pc = "capture" /\ pc' # "capture") => pc' \in {"set_false", "idle"}]_vars

\* what does hold: as long as no timer has fired or called reset_capture
\* while the sensor thread was inside a callback, captures are a cooldown
\* apart
Sanity_CooldownUnlessRaced == hist.raced \/ hist.gap_ok

\* C19: under every interleaving of the timer threads with the sensor
\* thread, at most one cooldown timer is pending at any time, a cancelled
\* timer never sets can_capture to true, and can_capture is true only
\* when no cooldown timer is pending.
C19_TimerAndFlagConsistent ==
    /\ Cardinality(Pending) <= 1
    /\ ~hist.late
    /\ can_capture => Pending = {}

\* what does hold of these: at most one timer is pending
Sanity_OnePending == Cardinality(Pending) <= 1

\* and the flag is consistent as long as no timer fired or called
\* reset_capture while the sensor thread was inside a callback
Sanity_ConsistentUnlessRaced ==
    hist.raced \/ (~hist.late /\ (can_capture => Pending = {}))

\* C20: the cooldown always ends.  Whenever can_capture is false it
\* becomes true again once motion events stop, also after a capture whose
\* camera or HTTP step failed, and the script never rests with can_capture
\* false and no timer left to reset it.
C20_CooldownEnds ==
    /\ [](~can_capture /\ pc = "idle" => Live # {})
    /\ ~can_capture ~> can_capture
    /\ (hist.outcome = "failed" /\ pc = "set_false") ~> (~can_capture)
    /\ (~can_capture /\ hist.outcome = "failed") ~> can_capture

\* a capture failed, the cooldown ran, and its timer has reset can_capture
C20_Witness ==
    /\ hist.outcome = "failed"
    /\ can_capture
    /\ pc = "idle"
    /\ cooldown_timer # 0
    /\ timers[cooldown_timer].st = "done"
    /\ ~hist.raced

(***************************************************************************)
(* Claim C23: print_text draws the text inside the canvas it returns.      *)
(***************************************************************************)
\* the one text drawn into the canvas of print_text
TextDrawn == result.content[1]

\* the lines of the text as it was drawn
DrawnLines == Split(TextDrawn.text, "\n")

\* C23: print_text wraps the text to a positive width, starts it at an x
\* with 0 <= x < 512, and returns a canvas at least as high as the wrapped
\* lines together
C23_TextInsideCanvas ==
    op = "print_text" =>
        /\ TextDrawn.wrap_width > 0
        /\ 0 <= TextDrawn.x
        /\ TextDrawn.x < result.width
        /\ result.width = MAX_WIDTH
        /\ result.height >= Len(DrawnLines) * font_height(FONT, args.text)

\* what print_text does instead, for every text: it wraps to a width of
\* -512, so that the text starts with an empty line and every word has a
\* line of its own; it starts the text at x = 512, the right edge of the
\* canvas; and the canvas has the height of one line
Sanity_TextOutsideCanvas ==
    op = "print_text" =>
        /\ TextDrawn.wrap_width = 0 - MAX_WIDTH
        /\ TextDrawn.x = result.width
        /\ TextDrawn.y = 0
        /\ result.height = font_height(FONT, args.text)
        /\ TextDrawn.text = <<"\n">> \o Join(Split(args.text, " "), <<"\n">>)
        /\ Len(DrawnLines) >= 2

(***************************************************************************)
(* The while loop of _parse_markdown_to_formatted_lines, one iteration a   *)
(* step.  snap holds the locals of the call under way: the index i (from 1 *)
(* here, from 0 in the source), formatted_lines, and for every input line  *)
(* how often an iteration has gone over it: the line of an ordinary        *)
(* iteration, and the lines the scan loop of _parse_table has stepped      *)
(* over.                                                                   *)
(***************************************************************************)
\* the texts the loop is followed on have 1..MaxLoopLines lines of MdLines,
\* or are one of the longer texts with markers and tables
MaxLoopLines == 2

LoopTexts ==
    UNION {TextsOf(n) : n \in 1..MaxLoopLines} \cup InlineLines \cup TableTexts

LoopBackends == {Construct(512, BaseFontSize, LineSpacing, AllLoaded)}

\* lines = markdown_text.split('\n')
LoopLines == Split(args.text, "\n")

\* no call is under way
InitLoop ==
    /\ self \in LoopBackends
    /\ op = "idle"
    /\ args = NoArgs
    /\ result = NoResult
    /\ snap = NoSnap
    /\ ScriptOff
    /\ ServiceOff

\* the call: lines is split off the text, formatted_lines = [] and i = 0
loop_enter ==
    /\ op = "idle"
    /\ \E t \in LoopTexts :
          /\ args' = [name |-> "_parse_markdown_to_formatted_lines",
                      text |-> t]
          /\ snap' = [i |-> 1, formatted_lines |-> <<>>,
                      examined |-> [k \in 1..Len(Split(t, "\n")) |-> 0],
                      iterations |-> 0]
    /\ op' = "loop"
    /\ UNCHANGED <<self, result, script, printer>>

\* the locals after an iteration that has gone over the lines i..last,
\* appended the lines out and resumes at next
Iterated(last, out, next) ==
    [i |-> next,
     formatted_lines |-> snap.formatted_lines \o out,
     examined |-> [k \in DOMAIN snap.examined |->
                      IF k \in snap.i..last THEN snap.examined[k] + 1
                      ELSE snap.examined[k]],
     iterations |-> snap.iterations + 1]

\* an iteration that finds a table at i and hands it to _parse_table
loop_table ==
    /\ op = "loop"
    /\ snap.i <= Len(LoopLines)
    /\ OpensTable(LoopLines, snap.i)
    /\ LET t == parse_table(self, LoopLines, snap.i)
       IN  snap' = Iterated(TableEnd(LoopLines, snap.i) - 1,
                            t.table \o <<Styled(<<>>, self.font)>>, t.next)
    /\ UNCHANGED <<self, op, args, result, script, printer>>

\* an iteration of the if / elif chain
loop_line ==
    /\ op = "loop"
    /\ snap.i <= Len(LoopLines)
    /\ ~OpensTable(LoopLines, snap.i)
    /\ snap' = Iterated(snap.i,
                        <<parse_line(self, Strip(LoopLines[snap.i]))>>,
                        snap.i + 1)
    /\ UNCHANGED <<self, op, args, result, script, printer>>

\* the loop condition fails and formatted_lines is returned
loop_return ==
    /\ op = "loop"
    /\ snap.i > Len(LoopLines)
    /\ result' = [kind |-> "lines", lines |-> snap.formatted_lines]
    /\ op' = "_parse_markdown_to_formatted_lines"
    /\ UNCHANGED <<self, args, snap, script, printer>>

NextLoop == loop_enter \/ loop_table \/ loop_line \/ loop_return

SpecLoop == InitLoop /\ [][NextLoop]_vars

\* an iteration is enabled exactly here: the guards of loop_table and of
\* loop_line are complementary, and an iteration changes snap.iterations
LoopRuns == op = "loop" /\ snap.i <= Len(LoopLines)

\* the interpreter goes on with the call it is in: weak fairness of the
\* return and of the iterations, the latter written with LoopRuns for
\* ENABLED <<loop_table \/ loop_line>>_vars
SpecLoopFair ==
    /\ SpecLoop
    /\ WF_vars(loop_return)
    /\ ([]<>(~LoopRuns) \/ []<><<loop_table \/ loop_line>>_vars)

(***************************************************************************)
(* Claim C22: the parser terminates and goes over every line once.         *)
(***************************************************************************)
Returned == op = "_parse_markdown_to_formatted_lines"

\* C22: a call of _parse_markdown_to_formatted_lines returns on every input;
\* every iteration of its loop strictly increases i, the iterations that
\* call _parse_table included (the index it returns is greater than its
\* start index); the iterations so far have gone over every line before i
\* exactly once and over no line from i on, so that at the return every line
\* was gone over exactly once
C22_ParseTerminates ==
    /\ (op = "loop") ~> Returned
    /\ [][op = "loop" /\ op' = "loop" =>
             /\ snap'.i > snap.i
             /\ snap'.i <= Len(LoopLines) + 1]_vars
    /\ [](op = "loop" =>
             \A k \in 1..Len(LoopLines) :
                snap.examined[k] = IF k < snap.i THEN 1 ELSE 0)
    /\ [](Returned =>
             /\ \A k \in 1..Len(LoopLines) : snap.examined[k] = 1
             /\ result.lines
                    = parse_markdown_to_formatted_lines(self, args.text))

\* a call has returned after fewer iterations than lines: a table iteration
\* went over a header, a separator and two blank lines, an ordinary one over
\* the line after them
C22_Witness ==
    /\ Returned
    /\ Len(LoopLines) = 5
    /\ snap.iterations = 2
    /\ snap.i = 6
    /\ \E k \in 1..5 : Strip(LoopLines[k]) = <<>>

(***************************************************************************)
(* The print services: api.py and the image handlers of                    *)
(* discord-bot/main.py and discord-bot/bot.py.  A request is drawn at the  *)
(* start together with what its surroundings will answer: the result of    *)
(* requests.get, of Image.open, of Image.resize on an empty size, and of   *)
(* the printer calls.  The printer handle records what was sent to it.     *)
(* An exception is the name of its class.                                  *)
(***************************************************************************)
\* heights of the images are 1..MaxImageHeight
MaxImageHeight == 3
\* widths of the images are around the multiples of the printer width up to
\* MaxWide times that width
MaxWide == 2

\* max_width = 512 of the handlers
PrinterWidth == 512

NoException == "none"

\* requests.RequestException and its subclasses
IsRequestException(e) == e \in {"RequestException"}

\* IOError (OSError) and its subclasses; requests.RequestException is one
IsIOError(e) == e \in {"RequestException", "UnidentifiedImageError", "USBError"}

NoCommands == <<>>

ImageCommand(image) == [cmd |-> "image", width |-> image.width,
                        height |-> image.height]

CutCommand == [cmd |-> "cut", width |-> 0, height |-> 0]

\* the printer handle: Usb(...) succeeded or p = None
Usb(ok) == [usb |-> ok, out |-> NoCommands]

\* int(max_width * (image.height / image.width)): the product with 512 is
\* exact in binary floating point, so the result is the rounded quotient
\* scaled, and rounding cannot reach the next integer for sizes below 2^44
new_height(image) == (PrinterWidth * image.height) \div image.width

\* the resize step of the handlers; zero is what Image.resize does with a
\* height of 0: raise ValueError, or return the empty image
resize(image, zero) ==
    IF image.width > PrinterWidth
    THEN IF new_height(image) < 1 /\ zero = "ValueError"
         THEN [raised |-> "ValueError", image |-> image]
         ELSE [raised |-> NoException,
               image |-> [width |-> PrinterWidth, height |-> new_height(image)]]
    ELSE [raised |-> NoException, image |-> image]

\* p.image(image) and then p.cut() if cut
print_resized(image, req, cut) ==
    IF req.image # NoException
    THEN [raised |-> req.image, out |-> NoCommands]
    ELSE IF cut /\ req.cut_raises # NoException
    THEN [raised |-> req.cut_raises, out |-> <<ImageCommand(image)>>]
    ELSE [raised |-> NoException,
          out |-> IF cut THEN <<ImageCommand(image), CutCommand>>
                  ELSE <<ImageCommand(image)>>]

\* Image.open, the resize and the printing: the statements the four handlers
\* share
open_and_print(req, cut) ==
    IF req.open # NoException
    THEN [raised |-> req.open, out |-> NoCommands]
    ELSE LET r == resize(req.content, req.zero)
         IN  IF r.raised # NoException
             THEN [raised |-> r.raised, out |-> NoCommands]
             ELSE print_resized(r.image, req, cut)

Response(code, detail, out, escaped) ==
    [kind |-> "response", status_code |-> code, detail |-> detail,
     out |-> out, escaped |-> escaped]

\* the try block of print_image_url of api.py
print_image_url_try(req) ==
    IF req.get.raised # NoException
    THEN [raised |-> req.get.raised, out |-> NoCommands]
    ELSE IF req.get.status_code # 200
    THEN [raised |-> "HTTPException", out |-> NoCommands]
    ELSE open_and_print(req, req.cut)

\* the except clauses of print_image_url: the first that matches the class
print_image_url_except(t) ==
    IF t.raised = NoException
    THEN Response(200, "Image printed successfully", t.out, NoException)
    ELSE IF IsRequestException(t.raised)
    THEN Response(400, "Failed to fetch image", t.out, NoException)
    ELSE Response(500, "Failed to print image", t.out, NoException)

\* POST /print/image-url of api.py
print_image_url(device, req) ==
    IF ~device.usb
    THEN Response(503, "Printer not available", NoCommands, NoException)
    ELSE print_image_url_except(print_image_url_try(req))

\* POST /print/image of api.py
print_image(device, req) ==
    IF ~device.usb
    THEN Response(503, "Printer not available", NoCommands, NoException)
    ELSE IF ~req.is_image
    THEN Response(400, "File must be an image", NoCommands, NoException)
    ELSE LET t == open_and_print(req, req.cut)
         IN  IF t.raised = NoException
             THEN Response(200, "Image printed successfully", t.out,
                           NoException)
             ELSE Response(500, "Failed to print image", t.out, NoException)

\* POST /print/image of main.py: every answer is a 200 with a status field
print_image_api(device, req) ==
    IF ~req.is_image
    THEN Response(200, "File is not recognized as an image", NoCommands,
                  NoException)
    ELSE LET t == open_and_print(req, TRUE)
         IN  IF t.raised = NoException
             THEN Response(200, "Image printed successfully", t.out,
                           NoException)
             ELSE Response(200, "Failed to print image", t.out, NoException)

\* the slash command print-bilde of bot.py: requests.get is outside the try,
\* and the try catches IOError only
print_bilde(device, req) ==
    IF ~req.is_image
    THEN Response(0, "Fil ikke gjenkjent som et bilde", NoCommands,
                  NoException)
    ELSE IF req.get.raised # NoException
    THEN Response(0, "none", NoCommands, req.get.raised)
    ELSE IF req.get.status_code # 200
    THEN Response(0, "Feil ved nedlastning av bilde", NoCommands, NoException)
    ELSE LET t == open_and_print(req, TRUE)
         IN  IF t.raised = NoException
             THEN Response(0, "Printet bildet", t.out, NoException)
             ELSE IF IsIOError(t.raised)
             THEN Response(0, "Feil ved aapning av bilde", t.out, NoException)
             ELSE Response(0, "none", t.out, t.raised)

ImageWidths ==
    {k * PrinterWidth + d : k \in 0..MaxWide, d \in {-1, 0, 1}} \ {-1, 0}

ImageSizes == [width : ImageWidths, height : 1..MaxImageHeight]

Downloads == {[raised |-> "RequestException", status_code |-> 0],
              [raised |-> NoException, status_code |-> 200],
              [raised |-> NoException, status_code |-> 404]}

Handlers == {"print_image", "print_image_url", "print_image_api",
             "print_bilde"}

\* the requests and what their surroundings answer; what a handler never
\* looks at is held at one value
Requests ==
    {r \in [name : Handlers, is_image : BOOLEAN, get : Downloads,
            open : {NoException, "UnidentifiedImageError"},
            content : ImageSizes, zero : {"ValueError", "empty"},
            image : {NoException, "USBError"},
            cut_raises : {NoException, "USBError"}, cut : BOOLEAN] :
        /\ r.name \in {"print_image", "print_image_api"}
              => r.get = [raised |-> NoException, status_code |-> 200]
        /\ r.name = "print_image_url" => r.is_image
        /\ r.name \in {"print_image_api", "print_bilde"} => r.cut
        /\ r.open # NoException => r.content = [width |-> 1, height |-> 1]
        /\ (r.content.width <= PrinterWidth \/ new_height(r.content) >= 1)
              => r.zero = "ValueError"}

\* api.py goes on without a printer (p = None); main.py and bot.py do not
\* start without one
InitService ==
    /\ self = Unconstructed
    /\ op = "pending"
    /\ args \in Requests
    /\ result = NoResult
    /\ snap = NoSnap
    /\ ScriptOff
    /\ \E ok \in BOOLEAN :
          /\ printer = Usb(ok)
          /\ ~ok => args.name \in {"print_image", "print_image_url"}

\* the answer of a handler and what it has sent to the printer
Serve(r) ==
    /\ result' = r
    /\ printer' = [printer EXCEPT !.out = @ \o r.out]
    /\ op' = args.name
    /\ UNCHANGED <<self, args, snap, script>>

print_image_call ==
    /\ op = "pending"
    /\ args.name = "print_image"
    /\ Serve(print_image(printer, args))

print_image_url_call ==
    /\ op = "pending"
    /\ args.name = "print_image_url"
    /\ Serve(print_image_url(printer, args))

print_image_api_call ==
    /\ op = "pending"
    /\ args.name = "print_image_api"
    /\ Serve(print_image_api(printer, args))

print_bilde_call ==
    /\ op = "pending"
    /\ args.name = "print_bilde"
    /\ Serve(print_bilde(printer, args))

NextService ==
    \/ print_image_call
    \/ print_image_url_call
    \/ print_image_api_call
    \/ print_bilde_call

SpecService == InitService /\ [][NextService]_vars

(***************************************************************************)
(* Claim C21: the status of POST /print/image-url.                         *)
(***************************************************************************)
\* the download was answered, with a status other than 200
DownloadRefused ==
    /\ args.get.raised = NoException
    /\ args.get.status_code # 200

\* opening, resizing or printing the downloaded image failed
OpenOrPrintFailed ==
    /\ args.get = [raised |-> NoException, status_code |-> 200]
    /\ print_image_url_try(args).raised # NoException

\* C21: with a printer available, a download answered with a status other
\* than 200 makes POST /print/image-url respond 400 "Failed to download image
\* from URL" with nothing sent to the printer, and a 500 is only the answer
\* to a failure of opening or printing the image
C21_RefusedDownloadIs400 ==
    (op = "print_image_url" /\ printer.usb) =>
        /\ DownloadRefused =>
              /\ result.status_code = 400
              /\ result.detail = "Failed to download image from URL"
              /\ result.out = NoCommands
        /\ result.status_code = 500 => OpenOrPrintFailed

\* what the endpoint does instead: the HTTPException of line 107 is raised
\* inside the try and caught on line 129, so the answer is a 500; the 400s
\* are the answers to a request that raised
Sanity_RefusedDownloadIs500 ==
    (op = "print_image_url" /\ printer.usb) =>
        /\ DownloadRefused =>
              /\ result.status_code = 500
              /\ result.detail = "Failed to print image"
              /\ result.out = NoCommands
        /\ result.status_code = 400 <=> args.get.raised # NoException
        /\ result.status_code = 500 <=> (DownloadRefused \/ OpenOrPrintFailed)

(***************************************************************************)
(* Claim C24: the size of the images passed to the printer.                *)
(***************************************************************************)
\* the handler has opened the image of the request
Opened ==
    /\ op \in Handlers
    /\ printer.usb
    /\ args.is_image
    /\ args.get = [raised |-> NoException, status_code |-> 200]
    /\ args.open = NoException

\* the size the claim gives for the image of the request
FittedSize ==
    IF args.content.width <= PrinterWidth THEN args.content
    ELSE [width |-> PrinterWidth,
          height |-> (PrinterWidth * args.content.height)
                         \div args.content.width]

\* the image is wider than the printer and so flat that its height scales
\* to less than one pixel
Flat == PrinterWidth * args.content.height < args.content.width

ImagesSent == {k \in DOMAIN result.out : result.out[k].cmd = "image"}

\* C24: a handler that has opened an image of w x h pixels passes it to the
\* printer unchanged if w <= 512 and as 512 x floor(512 h / w) if w > 512,
\* and every image passed has a width of at most 512 and a height of at
\* least 1
C24_PrintedImagesFit ==
    Opened =>
        /\ \A k \in ImagesSent :
              /\ result.out[k].width <= PrinterWidth
              /\ result.out[k].height >= 1
        /\ args.image = NoException =>
              /\ ImagesSent = {1}
              /\ result.out[1] = ImageCommand(FittedSize)

\* the claim holds for every image that is not flat
Sanity_OtherImagesFit ==
    (Opened /\ ~Flat) =>
        /\ \A k \in ImagesSent :
              /\ result.out[k].width <= PrinterWidth
              /\ result.out[k].height >= 1
        /\ args.image = NoException =>
              /\ ImagesSent = {1}
              /\ result.out[1] = ImageCommand(FittedSize)

\* a flat image is resized to a height of 0: either Image.resize raises
\* ValueError, nothing is printed and the handler reports a failure (the
\* ValueError leaves print_bilde, which catches IOError only), or an image
\* of 512 x 0 pixels is passed to the printer
Sanity_FlatImagesFail ==
    (Opened /\ Flat) =>
        IF args.zero = "ValueError"
        THEN /\ result.out = NoCommands
             /\ op = "print_image" => result.status_code = 500
             /\ op = "print_image_url" => result.status_code = 500
             /\ op = "print_image_api" => result.detail = "Failed to print image"
             /\ op = "print_bilde" => result.escaped = "ValueError"
        ELSE args.image = NoException =>
                 result.out[1] = ImageCommand([width |-> PrinterWidth,
                                               height |-> 0])

====
